---- MODULE Spec2Model ----
(***************************************************************************)
(* A model of the voxel world of sprite_normal_maps: the packed voxel      *)
(* codec (world/voxel.rs), the chunk store and the chunk manager           *)
(* (world/chunk.rs), the element spawner (simulation/element_spawner.rs)   *)
(* the CPU cellular automaton with its fixed-rate scheduler and its       *)
(* random generator (simulation/cpu_simulation.rs), the upload of a        *)
(* chunk's texture (main.rs, rendering/gpu_renderer.rs) and the projection *)
(* of a density volume to sprite maps (volume.rs).                         *)
(*                                                                         *)
(* Conventions.                                                            *)
(*  - A u32 is a tuple of four bytes, least significant first, so that the *)
(*    full 32-bit width is kept (TLC's integers stop at 2^31 - 1).         *)
(*  - A world coordinate (f32 in the source) is an integer number of half  *)
(*    units: the voxel centres (local + 0.5) and every input the model     *)
(*    draws are multiples of 0.5, on which the f32 arithmetic is exact.    *)
(*  - A random draw (f32 in [0, 1]) is an integer number of hundredths.    *)
(*  - Time is an integer number of milliseconds.                           *)
(***************************************************************************)
EXTENDS Integers, Sequences, FiniteSets, TLC

VARIABLES
    vx,           \* the VoxelData value the codec operations act on
    chunk,        \* a WorldChunk: chunk_position, voxels (indexed from 0),
                  \* dirty, has_dynamic_elements, world_bounds
    ACCUMULATOR,  \* simulate_fire_cpu's static accumulator (ms)
    elapsed,      \* history: the sum of the frame durations so far (ms)
    sim_steps,    \* history: the number of simulation steps run so far
    chunks,       \* ChunkManager.chunks: the entries <<position, entity>> of
                  \* the HashMap
    world,        \* the WorldChunk component of each entity that has one
    latest,       \* history: per position, the entity of the latest
                  \* register_chunk that no unregister_chunk has followed
    ops,          \* history: the number of operations applied so far
    image,        \* the chunk's texture: `asset`, the data of the Image that
                  \* Assets<Image> holds under the chunk's gpu_texture
                  \* handle (None when it holds none); `shown` (history),
                  \* the data last handed to the display layer
    SEED,         \* simple_random's static state, a u32 as two 16-bit limbs;
                  \* followed by SpecRandom only: the other specifications
                  \* draw any value simple_random can return
    overflow_checks, \* whether the build traps on integer overflow
    volume,       \* a Volume: dimensions and data (indexed from 0)
    render,       \* the VolumeRenderResult of the last render
    pre,          \* history: the chunk (or voxel, or map) before the last
                  \* operation
    last          \* history: the last operation and its arguments

vars == <<vx, chunk, ACCUMULATOR, elapsed, sim_steps, chunks, world, latest,
          ops, image, SEED, overflow_checks, volume, render, pre, last>>

(***************************************************************************)
(* Bounds of the model.                                                    *)
(***************************************************************************)
\* The chunk edge: 64 in the source (chunk.rs:5), scaled down here.  Every
\* literal 64 and 63 of the source is CHUNK_SIZE and CHUNK_SIZE - 1.
CHUNK_SIZE == 2

\* The byte samples are 0..MaxLowByte, 255-MaxLowByte..255 and a few bytes
\* with mixed bits.
MaxLowByte == 1

(***************************************************************************)
(* Bytes and 32-bit words.                                                 *)
(***************************************************************************)
RECURSIVE BitAnd(_, _, _)
\* The bitwise AND of the low n bits of a and b.
BitAnd(a, b, n) ==
    IF n = 0 THEN 0
    ELSE (a % 2) * (b % 2) + 2 * BitAnd(a \div 2, b \div 2, n - 1)

U8And(a, b) == BitAnd(a, b, 8)
U8Or(a, b)  == a + b - BitAnd(a, b, 8)
U8Not(a)    == 255 - a

\* `b as u32`
U8AsU32(b) == <<b, 0, 0, 0>>
\* `w as u8`: the truncating cast
U32AsU8(w) == w[1]

U32And(a, b) == [i \in 1..4 |-> U8And(a[i], b[i])]
U32Or(a, b)  == [i \in 1..4 |-> U8Or(a[i], b[i])]
\* a << n and a >> n for n a multiple of 8 (the only shifts of the source);
\* bits shifted out of the 32 are lost.
U32Shl(a, n) == [i \in 1..4 |-> IF i - (n \div 8) >= 1 THEN a[i - (n \div 8)] ELSE 0]
U32Shr(a, n) == [i \in 1..4 |-> IF i + (n \div 8) <= 4 THEN a[i + (n \div 8)] ELSE 0]

\* The two 16-bit halves of a word, as numbers.
Lo16(w) == w[1] + 256 * w[2]
Hi16(w) == w[3] + 256 * w[4]

(***************************************************************************)
(* MaterialType (voxel.rs:4-69).                                           *)
(***************************************************************************)
MaterialType ==
    {"Air", "Rock", "Dirt", "Wood", "Metal", "Fire", "Smoke", "Water", "Debris"}

\* `material as u32`: the enum's discriminant (#[repr(u8)]).
MaterialAsU8(m) ==
    CASE m = "Air"    -> 0
      [] m = "Rock"   -> 1
      [] m = "Dirt"   -> 2
      [] m = "Wood"   -> 3
      [] m = "Metal"  -> 4
      [] m = "Fire"   -> 5
      [] m = "Smoke"  -> 6
      [] m = "Water"  -> 7
      [] m = "Debris" -> 8

MaterialFromU8Swapped(value) ==
    CASE value = 1 -> "Rock"
      [] value = 2 -> "Dirt"
      [] value = 3 -> "Wood"
      [] value = 4 -> "Metal"
      [] value = 5 -> "Fire"
      [] value = 6 -> "Water"
      [] value = 7 -> "Smoke"
      [] value = 8 -> "Debris"
      [] OTHER     -> "Air"

MaterialFromU8(value) ==
    CASE value = 1 -> "Rock"
      [] value = 2 -> "Dirt"
      [] value = 3 -> "Wood"
      [] value = 4 -> "Metal"
      [] value = 5 -> "Fire"
      [] value = 6 -> "Smoke"
      [] value = 7 -> "Water"
      [] value = 8 -> "Debris"
      [] OTHER     -> "Air"

MaterialIsSolid(m)   == m \in {"Rock", "Dirt", "Wood", "Metal"}
MaterialIsDynamic(m) == m \in {"Fire", "Smoke", "Water", "Debris"}

(***************************************************************************)
(* voxel_flags (voxel.rs:79-86).                                           *)
(***************************************************************************)
FLAG_NONE        == 0
FLAG_COLLISION   == 1
FLAG_EMITS_LIGHT == 2
FLAG_TEMPORARY   == 4
FLAG_STATIC      == 8
FLAG_TRANSPARENT == 16

(***************************************************************************)
(* VoxelData (voxel.rs:71-198): a struct of one u32 field.                 *)
(***************************************************************************)
VoxelNewDensityUnshifted(material, density, temperature, flags) ==
    [data |-> U32Or(U32Or(U32Or(U8AsU32(MaterialAsU8(material)),
                                U8AsU32(density)),
                          U32Shl(U8AsU32(temperature), 16)),
                    U32Shl(U8AsU32(flags), 24))]

VoxelNew(material, density, temperature, flags) ==
    [data |-> U32Or(U32Or(U32Or(U8AsU32(MaterialAsU8(material)),
                                U32Shl(U8AsU32(density), 8)),
                          U32Shl(U8AsU32(temperature), 16)),
                    U32Shl(U8AsU32(flags), 24))]

VoxelAir == VoxelNew("Air", 0, 0, FLAG_NONE)
VoxelRock(density) ==
    VoxelNew("Rock", density, 0, U8Or(FLAG_COLLISION, FLAG_STATIC))

VoxelAsU32(v)   == v.data
VoxelFromU32(w) == [data |-> w]

Material(v)    == MaterialFromU8(U32AsU8(U32And(v.data, <<255, 0, 0, 0>>)))
Density(v)     == U32AsU8(U32And(U32Shr(v.data, 8), <<255, 0, 0, 0>>))
Temperature(v) == U32AsU8(U32And(U32Shr(v.data, 16), <<255, 0, 0, 0>>))
Flags(v)       == U32AsU8(U32And(U32Shr(v.data, 24), <<255, 0, 0, 0>>))

SetMaterial(v, material) ==
    [data |-> U32Or(U32And(v.data, <<0, 255, 255, 255>>),
                    U8AsU32(MaterialAsU8(material)))]

SetDensityWideMask(v, density) ==
    [data |-> U32Or(U32And(v.data, <<255, 0, 0, 255>>),
                    U32Shl(U8AsU32(density), 8))]

SetDensity(v, density) ==
    [data |-> U32Or(U32And(v.data, <<255, 0, 255, 255>>),
                    U32Shl(U8AsU32(density), 8))]
SetTemperature(v, temperature) ==
    [data |-> U32Or(U32And(v.data, <<255, 255, 0, 255>>),
                    U32Shl(U8AsU32(temperature), 16))]
SetFlags(v, flags) ==
    [data |-> U32Or(U32And(v.data, <<255, 255, 255, 0>>),
                    U32Shl(U8AsU32(flags), 24))]

HasFlag(v, flag)    == U8And(Flags(v), flag) # 0
AddFlag(v, flag)    == SetFlags(v, U8Or(Flags(v), flag))
RemoveFlag(v, flag) == SetFlags(v, U8And(Flags(v), U8Not(flag)))

FlagBits ==
    {FLAG_COLLISION, FLAG_EMITS_LIGHT, FLAG_TEMPORARY, FLAG_STATIC, FLAG_TRANSPARENT}

IsEmpty(v) == Material(v) = "Air"
IsSolidNeedsBoth(v) == HasFlag(v, FLAG_COLLISION) /\ MaterialIsSolid(Material(v))

IsSolid(v) == HasFlag(v, FLAG_COLLISION) \/ MaterialIsSolid(Material(v))

(***************************************************************************)
(* The inputs of the codec operations.                                     *)
(***************************************************************************)
ByteSamples ==
    {b \in 0..255 : b <= MaxLowByte \/ b >= 255 - MaxLowByte} \cup {9, 170}

\* Raw words, as read back from a buffer: any bytes, known tag or not.
WordSamples == {<<b0, b1, b2, b3>> : b0 \in ByteSamples \cup 0..9,
                                     b1 \in {0, 170, 255},
                                     b2 \in {0, 85, 255},
                                     b3 \in ByteSamples}

(***************************************************************************)
(* Option<T>: None is the empty tuple, Some(v) the tuple of v.             *)
(***************************************************************************)
None         == <<>>
Some(v)      == <<v>>
IsNone(o)    == o = <<>>
IsSome(o)    == o # <<>>
Unwrap(o)    == o[1]
UnwrapOr(o, d) == IF o = <<>> THEN d ELSE o[1]

Min(a, b) == IF a <= b THEN a ELSE b

(***************************************************************************)
(* Vectors are triples <<x, y, z>>.  World vectors (Vec3) are in half      *)
(* units, local ones (UVec3) and chunk positions (IVec3) in whole units.   *)
(***************************************************************************)
Splat(a)      == <<a, a, a>>
VecAdd(a, b)  == <<a[1] + b[1], a[2] + b[2], a[3] + b[3]>>
VecSub(a, b)  == <<a[1] - b[1], a[2] - b[2], a[3] - b[3]>>
DistanceSquared(a, b) ==
    (a[1] - b[1]) * (a[1] - b[1]) + (a[2] - b[2]) * (a[2] - b[2])
      + (a[3] - b[3]) * (a[3] - b[3])

(***************************************************************************)
(* BoundingBox and WorldChunk (chunk.rs:10-213).                           *)
(***************************************************************************)
VOXELS_PER_CHUNK == CHUNK_SIZE * CHUNK_SIZE * CHUNK_SIZE

ContainsPoint(b, point) ==
    /\ point[1] >= b.min[1] /\ point[1] <= b.max[1]
    /\ point[2] >= b.min[2] /\ point[2] <= b.max[2]
    /\ point[3] >= b.min[3] /\ point[3] <= b.max[3]

WorldChunkNewOneLayer(position) ==
    LET world_min == <<2 * CHUNK_SIZE * position[1],
                       2 * CHUNK_SIZE * position[2],
                       2 * CHUNK_SIZE * position[3]>>
        world_max == VecAdd(world_min, Splat(2 * CHUNK_SIZE))
    IN  [chunk_position       |-> position,
         voxels               |-> [i \in 0..(CHUNK_SIZE * CHUNK_SIZE - 1) |-> VoxelAir],
         dirty                |-> TRUE,
         has_dynamic_elements |-> FALSE,
         world_bounds         |-> [min |-> world_min, max |-> world_max]]

WorldChunkNew(position) ==
    LET world_min == <<2 * CHUNK_SIZE * position[1],
                       2 * CHUNK_SIZE * position[2],
                       2 * CHUNK_SIZE * position[3]>>
        world_max == VecAdd(world_min, Splat(2 * CHUNK_SIZE))
    IN  [chunk_position       |-> position,
         voxels               |-> [i \in 0..(VOXELS_PER_CHUNK - 1) |-> VoxelAir],
         dirty                |-> TRUE,
         has_dynamic_elements |-> FALSE,
         world_bounds         |-> [min |-> world_min, max |-> world_max]]

VoxelIndexXMajor(x, y, z) ==
    IF x >= CHUNK_SIZE \/ y >= CHUNK_SIZE \/ z >= CHUNK_SIZE
    THEN None
    ELSE Some(x * CHUNK_SIZE * CHUNK_SIZE + y * CHUNK_SIZE + z)

VoxelIndexNoYStride(x, y, z) ==
    IF x >= CHUNK_SIZE \/ y >= CHUNK_SIZE \/ z >= CHUNK_SIZE
    THEN None
    ELSE Some(z * CHUNK_SIZE * CHUNK_SIZE + y + x)

VoxelIndex(x, y, z) ==
    IF x >= CHUNK_SIZE \/ y >= CHUNK_SIZE \/ z >= CHUNK_SIZE
    THEN None
    ELSE Some(z * CHUNK_SIZE * CHUNK_SIZE + y * CHUNK_SIZE + x)

GetVoxel(c, x, y, z) ==
    IF IsNone(VoxelIndex(x, y, z)) THEN None
    ELSE Some(c.voxels[Unwrap(VoxelIndex(x, y, z))])

SetVoxelRecomputesFlag(c, x, y, z, voxel) ==
    IF IsNone(VoxelIndex(x, y, z)) THEN c
    ELSE [c EXCEPT !.voxels[Unwrap(VoxelIndex(x, y, z))] = voxel,
                   !.dirty = TRUE,
                   !.has_dynamic_elements = MaterialIsDynamic(Material(voxel))]

SetVoxelDirtyFirst(c, x, y, z, voxel) ==
    IF IsNone(VoxelIndex(x, y, z)) THEN [c EXCEPT !.dirty = TRUE]
    ELSE [c EXCEPT !.voxels[Unwrap(VoxelIndex(x, y, z))] = voxel,
                   !.dirty = TRUE,
                   !.has_dynamic_elements =
                       IF MaterialIsDynamic(Material(voxel)) THEN TRUE ELSE @]

SetVoxelAssignsFlag(c, x, y, z, voxel) ==
    IF IsNone(VoxelIndex(x, y, z)) THEN c
    ELSE [c EXCEPT !.voxels[Unwrap(VoxelIndex(x, y, z))] = voxel,
                   !.dirty = TRUE,
                   !.has_dynamic_elements = MaterialIsDynamic(Material(voxel))]

SetVoxel(c, x, y, z, voxel) ==
    IF IsNone(VoxelIndex(x, y, z)) THEN c
    ELSE [c EXCEPT !.voxels[Unwrap(VoxelIndex(x, y, z))] = voxel,
                   !.dirty = TRUE,
                   !.has_dynamic_elements =
                       IF MaterialIsDynamic(Material(voxel)) THEN TRUE ELSE @]

\* f32 floor then `as u32`, of a value that contains_point has shown >= 0.
FloorU32(half) == half \div 2

WorldToLocalClamped(c, world_pos) ==
    IF ~ContainsPoint(c.world_bounds, world_pos) THEN None
    ELSE LET local == VecSub(world_pos, c.world_bounds.min)
         IN  Some(<<Min(FloorU32(local[1]), CHUNK_SIZE - 1),
                    Min(FloorU32(local[2]), CHUNK_SIZE - 1),
                    Min(FloorU32(local[3]), CHUNK_SIZE - 1)>>)

WorldToLocal(c, world_pos) ==
    IF ~ContainsPoint(c.world_bounds, world_pos) THEN None
    ELSE LET local == VecSub(world_pos, c.world_bounds.min)
             x == FloorU32(local[1])
             y == FloorU32(local[2])
             z == FloorU32(local[3])
         IN  IF x < CHUNK_SIZE /\ y < CHUNK_SIZE /\ z < CHUNK_SIZE
             THEN Some(<<x, y, z>>)
             ELSE None

GetVoxelWorld(c, world_pos) ==
    LET local_pos == WorldToLocal(c, world_pos)
    IN  IF IsNone(local_pos) THEN None
        ELSE GetVoxel(c, Unwrap(local_pos)[1], Unwrap(local_pos)[2],
                      Unwrap(local_pos)[3])

SetVoxelWorld(c, world_pos, voxel) ==
    LET local_pos == WorldToLocal(c, world_pos)
    IN  IF IsSome(local_pos)
        THEN SetVoxel(c, Unwrap(local_pos)[1], Unwrap(local_pos)[2],
                      Unwrap(local_pos)[3], voxel)
        ELSE c

LocalToWorld(c, x, y, z) ==
    VecAdd(c.world_bounds.min, <<2 * x + 1, 2 * y + 1, 2 * z + 1>>)

\* The cells of `for z in lo[3]..hi[3] { for y in lo[2]..hi[2] { for x in
\* lo[1]..hi[1] {..}}}` (upper ends exclusive), in the order the loops visit
\* them; empty when a range is.
LoopCells(lo, hi) ==
    LET nx == IF hi[1] > lo[1] THEN hi[1] - lo[1] ELSE 0
        ny == IF hi[2] > lo[2] THEN hi[2] - lo[2] ELSE 0
        nz == IF hi[3] > lo[3] THEN hi[3] - lo[3] ELSE 0
    IN  [k \in 1..(nx * ny * nz) |->
            <<lo[1] + ((k - 1) % nx),
              lo[2] + (((k - 1) \div nx) % ny),
              lo[3] + ((k - 1) \div (nx * ny))>>]

RECURSIVE SetVoxels(_, _, _)
\* set_voxel(cell, voxel) for each cell of the sequence, in order.
SetVoxels(c, cells, voxel) ==
    IF cells = <<>> THEN c
    ELSE SetVoxels(SetVoxel(c, Head(cells)[1], Head(cells)[2], Head(cells)[3], voxel),
                   Tail(cells), voxel)

FillRegionMaxInclusive(c, min, max, voxel) ==
    LET min_x == Min(min[1], CHUNK_SIZE - 1)
        min_y == Min(min[2], CHUNK_SIZE - 1)
        min_z == Min(min[3], CHUNK_SIZE - 1)
        max_x == Min(max[1], CHUNK_SIZE)
        max_y == Min(max[2], CHUNK_SIZE)
        max_z == Min(max[3], CHUNK_SIZE)
    IN  SetVoxels(c, LoopCells(<<min_x, min_y, min_z>>,
                               <<max_x + 1, max_y + 1, max_z + 1>>), voxel)

FillRegion(c, min, max, voxel) ==
    LET min_x == Min(min[1], CHUNK_SIZE - 1)
        min_y == Min(min[2], CHUNK_SIZE - 1)
        min_z == Min(min[3], CHUNK_SIZE - 1)
        max_x == Min(max[1], CHUNK_SIZE)
        max_y == Min(max[2], CHUNK_SIZE)
        max_z == Min(max[3], CHUNK_SIZE)
    IN  SetVoxels(c, LoopCells(<<min_x, min_y, min_z>>, <<max_x, max_y, max_z>>),
                  voxel)

FillSphere(c, center_world, radius, voxel) ==
    LET radius_sq == radius * radius
        local_min == WorldToLocal(c, VecSub(center_world, Splat(radius)))
        local_max == WorldToLocal(c, VecAdd(center_world, Splat(radius)))
        min == UnwrapOr(local_min, Splat(0))
        max == UnwrapOr(local_max, Splat(CHUNK_SIZE - 1))
        InSphere(cell) ==
            DistanceSquared(center_world,
                            LocalToWorld(c, cell[1], cell[2], cell[3])) <= radius_sq
    IN  IF IsNone(local_min) /\ IsNone(local_max) THEN c
        ELSE SetVoxels(c,
                 SelectSeq(LoopCells(min,
                               <<Min(max[1], CHUNK_SIZE - 1) + 1,
                                 Min(max[2], CHUNK_SIZE - 1) + 1,
                                 Min(max[3], CHUNK_SIZE - 1) + 1>>),
                           InSphere),
                 voxel)

AsU32Slice(c) == [i \in 0..(VOXELS_PER_CHUNK - 1) |-> VoxelAsU32(c.voxels[i])]

NeedsSimulation(c) == c.has_dynamic_elements

RecalculateOnlyRaises(c) ==
    [c EXCEPT !.has_dynamic_elements =
        @ \/ \E i \in DOMAIN c.voxels : MaterialIsDynamic(Material(c.voxels[i]))]

RecalculateDynamicStatus(c) ==
    [c EXCEPT !.has_dynamic_elements =
        \E i \in DOMAIN c.voxels : MaterialIsDynamic(Material(c.voxels[i]))]

\* update_chunk_textures on one chunk: the voxel data is handed to the image
\* and the dirty flag is cleared.
UpdateChunkTexture(c) == [c EXCEPT !.dirty = FALSE]

(***************************************************************************)
(* ChunkManager (chunk.rs:215-272).  The HashMap is the set of its entries *)
(* <<chunk position, entity>>.                                             *)
(***************************************************************************)
\* `(v / CHUNK_SIZE as f32).floor() as i32` of a coordinate in half units.
FloorDivChunkTruncating(half) ==
    IF half >= 0 THEN half \div (2 * CHUNK_SIZE)
    ELSE -((-half) \div (2 * CHUNK_SIZE))

FloorDivChunk(half) == half \div (2 * CHUNK_SIZE)

WorldToChunkPos(world_pos) ==
    <<FloorDivChunk(world_pos[1]), FloorDivChunk(world_pos[2]),
      FloorDivChunk(world_pos[3])>>

\* HashMap::get(&chunk_pos).copied()
GetChunkEntity(m, chunk_pos) ==
    IF \E entry \in m : entry[1] = chunk_pos
    THEN Some((CHOOSE entry \in m : entry[1] = chunk_pos)[2])
    ELSE None

RegisterChunkKeepsOld(m, chunk_pos, entity) ==
    m \cup {<<chunk_pos, entity>>}

\* HashMap::insert(chunk_pos, entity): the entry of an equal key is replaced.
RegisterChunk(m, chunk_pos, entity) ==
    {entry \in m : entry[1] # chunk_pos} \cup {<<chunk_pos, entity>>}

\* HashMap::remove(&chunk_pos): the map without the key, and the value it had.
UnregisterChunk(m, chunk_pos) ==
    [chunks |-> {entry \in m : entry[1] # chunk_pos},
     ret    |-> GetChunkEntity(m, chunk_pos)]

(***************************************************************************)
(* ElementSpawner's presets (element_spawner.rs:9-91).                     *)
(***************************************************************************)
FireSphereVoxel ==
    VoxelNew("Fire", 255, 255, U8Or(FLAG_EMITS_LIGHT, FLAG_TEMPORARY))
SmokeSphereVoxel ==
    VoxelNew("Smoke", 200, 50, U8Or(FLAG_TEMPORARY, FLAG_TRANSPARENT))
WaterSphereVoxel ==
    VoxelNew("Water", 255, 20, FLAG_TRANSPARENT)
DebrisVoxel ==
    VoxelNew("Debris", 180, 100, FLAG_TEMPORARY)

\* `radius * k` for the factors 0.5, 0.7 and 1.2, given in hundredths; exact
\* on the radii the model draws.
ScaleRadius(radius, hundredths) == (radius * hundredths) \div 100

\* spawn_element_sphere on the chunk components w and the manager's map m:
\* every chunk whose entity is registered at a position of the range
\* min_chunk..=max_chunk is filled and, for a dynamic voxel, flagged.  The
\* fill is idempotent, so an entity registered at two positions of the range
\* ends as one that is visited once.
SpawnElementSphere(w, m, world_pos, radius, voxel) ==
    LET min_chunk == WorldToChunkPos(VecSub(world_pos, Splat(radius)))
        max_chunk == WorldToChunkPos(VecAdd(world_pos, Splat(radius)))
        Visited(chunk_pos) ==
            \A i \in 1..3 : min_chunk[i] <= chunk_pos[i] /\ chunk_pos[i] <= max_chunk[i]
        Hit(entity) ==
            \E entry \in m : /\ Visited(entry[1])
                             /\ GetChunkEntity(m, entry[1]) = Some(entity)
        Filled(c) ==
            IF MaterialIsDynamic(Material(voxel))
            THEN [FillSphere(c, world_pos, radius, voxel)
                     EXCEPT !.has_dynamic_elements = TRUE]
            ELSE FillSphere(c, world_pos, radius, voxel)
    IN  [entity \in DOMAIN w |->
            IF Hit(entity) THEN Filled(w[entity]) ELSE w[entity]]

SpawnFireSphere(w, m, world_pos, radius) ==
    SpawnElementSphere(w, m, world_pos, radius, FireSphereVoxel)

SpawnSmokeSphere(w, m, world_pos, radius) ==
    SpawnElementSphere(w, m, world_pos, radius, SmokeSphereVoxel)

SpawnWaterSphere(w, m, world_pos, radius) ==
    SpawnElementSphere(w, m, world_pos, radius, WaterSphereVoxel)

SpawnExplosionDebris(w, m, world_pos, radius) ==
    SpawnElementSphere(w, m, world_pos, ScaleRadius(radius, 70), DebrisVoxel)

SpawnExplosion(w, m, world_pos, radius) ==
    LET fire  == SpawnFireSphere(w, m, world_pos, ScaleRadius(radius, 50))
        smoke == SpawnSmokeSphere(fire, m, world_pos, radius)
    IN  SpawnExplosionDebris(smoke, m, world_pos, ScaleRadius(radius, 120))

(***************************************************************************)
(* The simulation's random generator (cpu_simulation.rs:4-11).  A u32 is   *)
(* kept here as two 16-bit limbs <<low, high>>, so that the products stay  *)
(* below 2^31.                                                             *)
(***************************************************************************)
\* static mut SEED: u32 = 12345
SeedInitial == <<12345, 0>>

\* The multiplier 1664525 = 25 * 2^16 + 26125 and the increment
\* 1013904223 = 15470 * 2^16 + 62303.
LcgMultiplier == <<26125, 25>>
LcgIncrement  == <<62303, 15470>>

\* The carry out of the low limb of SEED * 1664525 + 1013904223.
LcgCarry(s) == (s[1] * LcgMultiplier[1] + LcgIncrement[1]) \div 65536

\* The value of SEED * 1664525 + 1013904223 does not fit 32 bits: a build
\* with overflow checks panics there ("attempt to multiply with overflow",
\* "attempt to add with overflow"), a build without them wraps.
LcgOverflows(s) ==
    \/ s[2] * LcgMultiplier[2] > 0
    \/ s[2] * LcgMultiplier[1] + s[1] * LcgMultiplier[2]
          + LcgIncrement[2] + LcgCarry(s) >= 65536

\* (SEED * 1664525 + 1013904223) & 0xFFFFFFFF, wrapped.
LcgNext(s) ==
    <<(s[1] * LcgMultiplier[1] + LcgIncrement[1]) % 65536,
      (((s[2] * LcgMultiplier[1]) % 65536) + s[1] * LcgMultiplier[2]
          + LcgIncrement[2] + LcgCarry(s)) % 65536>>

RECURSIVE BitLength(_)
BitLength(n) == IF n = 0 THEN 0 ELSE 1 + BitLength(n \div 2)

\* `SEED as f32`: the nearest value with a 24-bit significand, ties to even.
\* The result is again <<low, high>>, where high = 65536 stands for 2^32.
U32AsF32(s) ==
    IF s[2] < 256 THEN s
    ELSE LET k    == BitLength(s[2]) - 8
             q    == s[2] * 2^(16 - k) + (s[1] \div 2^k)
             rem  == s[1] % 2^k
             half == 2^(k - 1)
             up   == rem > half \/ (rem = half /\ q % 2 = 1)
             r    == IF up THEN q + 1 ELSE q
         IN  <<(r % 2^(16 - k)) * 2^k, r \div 2^(16 - k)>>

\* (SEED as f32) / (u32::MAX as f32): u32::MAX as f32 is 2^32, so the
\* quotient is exact.  A draw is kept as its numerator over 2^32.
DrawOf(s) == U32AsF32(s)

\* draw < 1.0
BelowOne(draw) == draw[2] < 65536

\* (draw * 4.0) as usize
DirectionIndex(draw) == draw[2] \div 16384

\* One call of simple_random on state s: a panic, or the new state and the
\* value returned.
SimpleRandom(s, checks) ==
    IF checks /\ LcgOverflows(s)
    THEN [panic |-> TRUE, seed |-> s, draw |-> <<0, 0>>]
    ELSE [panic |-> FALSE, seed |-> LcgNext(s), draw |-> DrawOf(LcgNext(s))]

(***************************************************************************)
(* The codec operations, applied to sampled inputs.                        *)
(***************************************************************************)
NoChunk == WorldChunkNew(<<0, 0, 0>>)

\* A ChunkManager with no entry (HashMap::new()) and no chunk entity.
NoManager ==
    /\ chunks = {}
    /\ world = <<>>
    /\ latest = <<>>
    /\ ops = 0

(***************************************************************************)
(* The display layer: create_chunk_texture (rendering/gpu_renderer.rs:7-43)*)
(* and update_chunk_textures (main.rs:115-135).                            *)
(***************************************************************************)
\* No texture has been created.
NoImage == [asset |-> None, shown |-> None]

\* chunk.voxels.iter().flat_map(|v| v.as_u32().to_le_bytes()).collect()
VoxelBytes(c) ==
    [i \in 1..(4 * VOXELS_PER_CHUNK) |->
        VoxelAsU32(c.voxels[(i - 1) \div 4])[((i - 1) % 4) + 1]]

\* create_chunk_texture: a new Image with the chunk's bytes is added to
\* Assets<Image>.
CreateChunkTexture(c) ==
    [asset |-> Some(VoxelBytes(c)), shown |-> Some(VoxelBytes(c))]

\* The body of update_chunk_textures for one dirty chunk whose gpu_texture
\* is Some: `image.data = Some(voxel_data)` if images.get_mut finds the
\* Image, nothing otherwise.
UploadTexture(img, c) ==
    IF IsSome(img.asset) THEN CreateChunkTexture(c) ELSE img

\* The Image was created with RenderAssetUsages::RENDER_WORLD
\* (gpu_renderer.rs:27): once the render world has extracted it, Assets<Image>
\* no longer holds it and images.get_mut returns None.
ExtractTexture(img) == [img EXCEPT !.asset = None]

\* The parts of the program a specification does not follow, as they are
\* before their first use: no texture has been created for the chunk,
\* simple_random has not been called, no volume has been rendered.
AtRest ==
    /\ image = NoImage
    /\ SEED = SeedInitial
    /\ overflow_checks = FALSE
    /\ volume = <<>>
    /\ render = <<>>

InitVoxel ==
    /\ vx = VoxelAir
    /\ chunk = NoChunk
    /\ ACCUMULATOR = 0
    /\ elapsed = 0
    /\ sim_steps = 0
    /\ NoManager
    /\ pre = VoxelAir
    /\ last = [op |-> "init"]
    /\ AtRest

VoxelFrame ==
    UNCHANGED <<chunk, ACCUMULATOR, elapsed, sim_steps, chunks, world, latest, ops,
                image, SEED, overflow_checks, volume, render>>

\* VoxelData::new(material, density, temperature, flags)
NewOp ==
    /\ last.op = "init"
    /\ \E m \in MaterialType, d \in ByteSamples, t \in ByteSamples, f \in ByteSamples :
          /\ vx' = VoxelNew(m, d, t, f)
          /\ last' = [op |-> "new", material |-> m, density |-> d,
                      temperature |-> t, flags |-> f]
    /\ pre' = vx
    /\ VoxelFrame

\* VoxelData::from_u32(data)
FromU32Op ==
    /\ last.op = "init"
    /\ \E w \in WordSamples :
          /\ vx' = VoxelFromU32(w)
          /\ last' = [op |-> "from_u32", data |-> w]
    /\ pre' = vx
    /\ VoxelFrame

SetMaterialOp ==
    /\ last.op = "from_u32"
    /\ \E m \in MaterialType :
          /\ vx' = SetMaterial(vx, m)
          /\ last' = [op |-> "set_material", arg |-> m]
    /\ pre' = vx
    /\ VoxelFrame

SetDensityOp ==
    /\ last.op = "from_u32"
    /\ \E d \in ByteSamples :
          /\ vx' = SetDensity(vx, d)
          /\ last' = [op |-> "set_density", arg |-> d]
    /\ pre' = vx
    /\ VoxelFrame

SetTemperatureOp ==
    /\ last.op = "from_u32"
    /\ \E t \in ByteSamples :
          /\ vx' = SetTemperature(vx, t)
          /\ last' = [op |-> "set_temperature", arg |-> t]
    /\ pre' = vx
    /\ VoxelFrame

SetFlagsOp ==
    /\ last.op = "from_u32"
    /\ \E f \in ByteSamples :
          /\ vx' = SetFlags(vx, f)
          /\ last' = [op |-> "set_flags", arg |-> f]
    /\ pre' = vx
    /\ VoxelFrame

AddFlagOp ==
    /\ last.op = "from_u32"
    /\ \E f \in ByteSamples \cup FlagBits :
          /\ vx' = AddFlag(vx, f)
          /\ last' = [op |-> "add_flag", arg |-> f]
    /\ pre' = vx
    /\ VoxelFrame

RemoveFlagOp ==
    /\ last.op = "from_u32"
    /\ \E f \in ByteSamples \cup FlagBits :
          /\ vx' = RemoveFlag(vx, f)
          /\ last' = [op |-> "remove_flag", arg |-> f]
    /\ pre' = vx
    /\ VoxelFrame

NextVoxel ==
    \/ NewOp
    \/ FromU32Op
    \/ SetMaterialOp
    \/ SetDensityOp
    \/ SetTemperatureOp
    \/ SetFlagsOp
    \/ AddFlagOp
    \/ RemoveFlagOp

SpecVoxel == InitVoxel /\ [][NextVoxel]_vars

(***************************************************************************)
(* The chunk operations, applied once to a chunk the program can hold.     *)
(***************************************************************************)
LocalCoords == 0..(CHUNK_SIZE - 1)

\* The chunks the operations start from: a new chunk, and one that set_voxel
\* has filled with rock and wood in a checkerboard and whose dirty flag
\* update_chunk_textures has cleared.  The position is one of those main.rs
\* spawns.
CheckerCells(parity) ==
    SelectSeq(LoopCells(Splat(0), Splat(CHUNK_SIZE)),
              LAMBDA cell : (cell[1] + cell[2] + cell[3]) % 2 = parity)

CheckerChunk(position) ==
    SetVoxels(SetVoxels(WorldChunkNew(position), CheckerCells(0), VoxelRock(255)),
              CheckerCells(1), VoxelNew("Wood", 200, 0, FLAG_COLLISION))

BaseChunks ==
    {WorldChunkNew(<<-1, 1, 0>>), UpdateChunkTexture(CheckerChunk(<<-1, 1, 0>>))}

\* Corner coordinates of fill_region: inside, on and beyond the chunk's edge.
RegionCoords == {0, 1, CHUNK_SIZE - 1, CHUNK_SIZE, CHUNK_SIZE + 1}
RegionCorners == RegionCoords \X RegionCoords \X RegionCoords

\* Out-of-range as well as in-range local coordinates of set_voxel.
SetCoords == 0..CHUNK_SIZE

\* Sphere centres and world points, as offsets from the chunk's minimum
\* corner: from half a voxel outside the chunk to half a voxel outside, in
\* half units; 0 and 2 * CHUNK_SIZE are on the faces of the bounding box.
CenterOffsets == (-1)..(2 * CHUNK_SIZE + 1)
Radii == 0..(2 * CHUNK_SIZE)

\* The voxels the fills write: VoxelData::new of these arguments.
FillVoxelArgs ==
    {<<"Rock", 255, 0, U8Or(FLAG_COLLISION, FLAG_STATIC)>>,
     <<"Fire", 255, 255, U8Or(FLAG_EMITS_LIGHT, FLAG_TEMPORARY)>>}
SetVoxelArgs ==
    MaterialType \X {0, 255} \X {0, 128} \X {0, 170, 255}

InitChunk ==
    /\ vx = VoxelAir
    /\ chunk \in BaseChunks
    /\ ACCUMULATOR = 0
    /\ elapsed = 0
    /\ sim_steps = 0
    /\ NoManager
    /\ pre = chunk
    /\ last = [op |-> "init"]
    /\ AtRest

ChunkFrame ==
    UNCHANGED <<vx, ACCUMULATOR, elapsed, sim_steps, chunks, world, latest, ops,
                image, SEED, overflow_checks, volume, render>>

SetVoxelOp ==
    /\ last.op = "init"
    /\ \E x \in SetCoords, y \in SetCoords, z \in SetCoords, a \in SetVoxelArgs :
          /\ chunk' = SetVoxel(chunk, x, y, z, VoxelNew(a[1], a[2], a[3], a[4]))
          /\ last' = [op |-> "set_voxel", x |-> x, y |-> y, z |-> z,
                      material |-> a[1], density |-> a[2],
                      temperature |-> a[3], flags |-> a[4],
                      voxel |-> VoxelNew(a[1], a[2], a[3], a[4])]
    /\ pre' = chunk
    /\ ChunkFrame

FillRegionOp ==
    /\ last.op = "init"
    /\ \E min \in RegionCorners, max \in RegionCorners, a \in FillVoxelArgs :
          /\ chunk' = FillRegion(chunk, min, max, VoxelNew(a[1], a[2], a[3], a[4]))
          /\ last' = [op |-> "fill_region", min |-> min, max |-> max,
                      voxel |-> VoxelNew(a[1], a[2], a[3], a[4])]
    /\ pre' = chunk
    /\ ChunkFrame

FillSphereOp ==
    /\ last.op = "init"
    /\ \E ox \in CenterOffsets, oy \in CenterOffsets, oz \in CenterOffsets,
          radius \in Radii, a \in FillVoxelArgs :
          LET center == VecAdd(chunk.world_bounds.min, <<ox, oy, oz>>)
          IN  /\ chunk' = FillSphere(chunk, center, radius,
                                     VoxelNew(a[1], a[2], a[3], a[4]))
              /\ last' = [op |-> "fill_sphere", center |-> center,
                          radius |-> radius,
                          voxel |-> VoxelNew(a[1], a[2], a[3], a[4])]
    /\ pre' = chunk
    /\ ChunkFrame

\* set_voxel_world(world_pos, voxel), then get_voxel_world(world_pos).
SetVoxelWorldOp ==
    /\ last.op = "init"
    /\ \E ox \in CenterOffsets, oy \in CenterOffsets, oz \in CenterOffsets,
          a \in FillVoxelArgs :
          LET world_pos == VecAdd(chunk.world_bounds.min, <<ox, oy, oz>>)
              voxel == VoxelNew(a[1], a[2], a[3], a[4])
          IN  /\ chunk' = SetVoxelWorld(chunk, world_pos, voxel)
              /\ last' = [op |-> "set_voxel_world", world_pos |-> world_pos,
                          voxel |-> voxel,
                          got |-> GetVoxelWorld(SetVoxelWorld(chunk, world_pos, voxel),
                                                world_pos)]
    /\ pre' = chunk
    /\ ChunkFrame

NextChunk ==
    \/ SetVoxelOp
    \/ SetVoxelWorldOp
    \/ FillRegionOp
    \/ FillSphereOp

SpecChunk == InitChunk /\ [][NextChunk]_vars

(***************************************************************************)
(* The CPU simulation (cpu_simulation.rs).                                 *)
(***************************************************************************)
\* SIM_RATE = 0.066 s, in milliseconds.
SIM_RATE == 66

\* The values simple_random() returns, in hundredths: one in each interval
\* the rules tell apart (thresholds 0.02, 0.05, 0.25, 0.3, 0.5 and the
\* quarters that pick a direction), and 1.0, which SEED as f32 / u32::MAX as
\* f32 gives once SEED rounds up to 2^32.
DrawSamples == {0, 2, 5, 25, 30, 50, 75, 100}

\* `n as u32` of an i32: a negative n wraps to n + 2^32.  TLC's integers stop
\* at 2^31 - 1, so the wrapped value is kept modulo 2^31: it is still larger
\* than every coordinate it is compared with.
I32AsU32(n) == IF n >= 0 THEN n ELSE (n + 2147483647) + 1

\* What one rule evaluation, or one scan, can do: push changes (x, y, z,
\* new voxel) or panic (an index out of bounds).
Ok(changes) == [panic |-> FALSE, changes |-> changes]
Panicked    == [panic |-> TRUE, changes |-> <<>>]

dirs == <<(<<1, 0>>), (<<-1, 0>>), (<<0, 1>>), (<<0, -1>>)>>

FireSpreadIgnitesAll(c, x, y, z, draw) ==
    LET i == (draw * 4) \div 100
    IN  IF i >= Len(dirs) THEN Panicked
        ELSE LET nx == I32AsU32(x + dirs[i + 1][1])
                 nz == I32AsU32(z + dirs[i + 1][2])
                 neighbor == GetVoxel(c, nx, y, nz)
             IN  IF nx < CHUNK_SIZE /\ nz < CHUNK_SIZE /\ IsSome(neighbor)
                 THEN CASE Material(Unwrap(neighbor)) = "Wood" ->
                               Ok(<<(<<nx, y, nz, VoxelNew("Fire", 255, 250, 0)>>)>>)
                        [] Material(Unwrap(neighbor)) = "Fire" -> Ok(<<>>)
                        [] OTHER ->
                               Ok(<<(<<nx, y, nz, VoxelNew("Fire", 255, 200, 0)>>)>>)
                 ELSE Ok(<<>>)

\* The tail of simulate_fire_voxel: dirs[(draw * 4.0) as usize] and the
\* neighbour it ignites.
FireSpread(c, x, y, z, draw) ==
    LET i == (draw * 4) \div 100
    IN  IF i >= Len(dirs) THEN Panicked
        ELSE LET nx == I32AsU32(x + dirs[i + 1][1])
                 nz == I32AsU32(z + dirs[i + 1][2])
                 neighbor == GetVoxel(c, nx, y, nz)
             IN  IF nx < CHUNK_SIZE /\ nz < CHUNK_SIZE /\ IsSome(neighbor)
                 THEN CASE Material(Unwrap(neighbor)) = "Air" ->
                               Ok(<<(<<nx, y, nz, VoxelNew("Fire", 255, 200, 0)>>)>>)
                        [] Material(Unwrap(neighbor)) = "Wood" ->
                               Ok(<<(<<nx, y, nz, VoxelNew("Fire", 255, 250, 0)>>)>>)
                        [] OTHER -> Ok(<<>>)
                 ELSE Ok(<<>>)

SimulateFireVoxelRiseThenSpread(c, x, y, z, voxel) ==
    UNION {
        IF d1 < 5
        THEN {Ok(<<(<<x, y, z, VoxelNew("Smoke", 200, 150, 0)>>)>>)}
        ELSE LET rise ==
                     IF /\ y < CHUNK_SIZE - 1
                        /\ IsSome(GetVoxel(c, x, y + 1, z))
                        /\ Material(Unwrap(GetVoxel(c, x, y + 1, z))) = "Air"
                     THEN <<(<<x, y, z, VoxelAir>>), (<<x, y + 1, z, voxel>>)>>
                     ELSE <<>>
             IN  UNION {
                    IF d2 < 25
                    THEN {IF FireSpread(c, x, y, z, d3).panic THEN Panicked
                          ELSE Ok(rise \o FireSpread(c, x, y, z, d3).changes) :
                             d3 \in DrawSamples}
                    ELSE {Ok(rise)}
                 : d2 \in DrawSamples}
    : d1 \in DrawSamples}

\* simulate_fire_voxel: the outcomes over all values of its draws.
SimulateFireVoxel(c, x, y, z, voxel) ==
    UNION {
        IF d1 < 5
        THEN {Ok(<<(<<x, y, z, VoxelNew("Smoke", 200, 150, 0)>>)>>)}
        ELSE IF /\ y < CHUNK_SIZE - 1
                /\ IsSome(GetVoxel(c, x, y + 1, z))
                /\ Material(Unwrap(GetVoxel(c, x, y + 1, z))) = "Air"
        THEN {Ok(<<(<<x, y, z, VoxelAir>>), (<<x, y + 1, z, voxel>>)>>)}
        ELSE UNION {
                IF d2 < 25
                THEN {FireSpread(c, x, y, z, d3) : d3 \in DrawSamples}
                ELSE {Ok(<<>>)}
             : d2 \in DrawSamples}
    : d1 \in DrawSamples}

\* simulate_smoke_voxel
SimulateSmokeVoxel(c, x, y, z, voxel) ==
    UNION {
        IF d1 < 2
        THEN {Ok(<<(<<x, y, z, VoxelAir>>)>>)}
        ELSE IF y < CHUNK_SIZE - 1
        THEN {IF /\ d2 < 30
                 /\ IsSome(GetVoxel(c, x, y + 1, z))
                 /\ Material(Unwrap(GetVoxel(c, x, y + 1, z))) = "Air"
              THEN Ok(<<(<<x, y, z, VoxelAir>>), (<<x, y + 1, z, voxel>>)>>)
              ELSE Ok(<<>>)
              : d2 \in DrawSamples}
        ELSE {Ok(<<>>)}
    : d1 \in DrawSamples}

WaterSpreadIntoAny(c, x, y, z, voxel, draw) ==
    LET i == (draw * 4) \div 100
    IN  IF i >= Len(dirs) THEN Panicked
        ELSE LET nx == I32AsU32(x + dirs[i + 1][1])
                 nz == I32AsU32(z + dirs[i + 1][2])
                 neighbor == GetVoxel(c, nx, y, nz)
             IN  IF /\ nx < CHUNK_SIZE /\ nz < CHUNK_SIZE /\ IsSome(neighbor)
                    /\ ~MaterialIsSolid(Material(Unwrap(neighbor)))
                 THEN Ok(<<(<<nx, y, nz, voxel>>)>>)
                 ELSE Ok(<<>>)

\* The tail of simulate_water_voxel: the neighbour the water spreads to.
WaterSpread(c, x, y, z, voxel, draw) ==
    LET i == (draw * 4) \div 100
    IN  IF i >= Len(dirs) THEN Panicked
        ELSE LET nx == I32AsU32(x + dirs[i + 1][1])
                 nz == I32AsU32(z + dirs[i + 1][2])
                 neighbor == GetVoxel(c, nx, y, nz)
             IN  IF /\ nx < CHUNK_SIZE /\ nz < CHUNK_SIZE /\ IsSome(neighbor)
                    /\ Material(Unwrap(neighbor)) = "Air"
                 THEN Ok(<<(<<nx, y, nz, voxel>>)>>)
                 ELSE Ok(<<>>)

SimulateWaterVoxelDrains(c, x, y, z, voxel) ==
    LET below == IF y > 0 THEN GetVoxel(c, x, y - 1, z) ELSE None
    IN  IF IsSome(below) /\ Material(Unwrap(below)) = "Air"
        THEN {Ok(<<(<<x, y, z, VoxelAir>>)>>)}
        ELSE IF IsSome(below) /\ Material(Unwrap(below)) = "Fire"
        THEN {Ok(<<(<<x, y, z, VoxelAir>>),
                   (<<x, y - 1, z, VoxelNew("Smoke", 150, 50, 0)>>)>>)}
        ELSE UNION {
                IF d1 < 50
                THEN {WaterSpread(c, x, y, z, voxel, d2) : d2 \in DrawSamples}
                ELSE {Ok(<<>>)}
             : d1 \in DrawSamples}

\* simulate_water_voxel
SimulateWaterVoxel(c, x, y, z, voxel) ==
    LET below == IF y > 0 THEN GetVoxel(c, x, y - 1, z) ELSE None
    IN  IF IsSome(below) /\ Material(Unwrap(below)) = "Air"
        THEN {Ok(<<(<<x, y, z, VoxelAir>>), (<<x, y - 1, z, voxel>>)>>)}
        ELSE IF IsSome(below) /\ Material(Unwrap(below)) = "Fire"
        THEN {Ok(<<(<<x, y, z, VoxelAir>>),
                   (<<x, y - 1, z, VoxelNew("Smoke", 150, 50, 0)>>)>>)}
        ELSE UNION {
                IF d1 < 50
                THEN {WaterSpread(c, x, y, z, voxel, d2) : d2 \in DrawSamples}
                ELSE {Ok(<<>>)}
             : d1 \in DrawSamples}

\* The body of simulate_chunk's scan for one cell: the match on the material.
SimulateVoxel(c, x, y, z) ==
    LET voxel == GetVoxel(c, x, y, z)
    IN  IF IsNone(voxel) THEN {Ok(<<>>)}
        ELSE CASE Material(Unwrap(voxel)) = "Fire" ->
                      SimulateFireVoxel(c, x, y, z, Unwrap(voxel))
               [] Material(Unwrap(voxel)) = "Smoke" ->
                      SimulateSmokeVoxel(c, x, y, z, Unwrap(voxel))
               [] Material(Unwrap(voxel)) = "Water" ->
                      SimulateWaterVoxel(c, x, y, z, Unwrap(voxel))
               [] OTHER -> {Ok(<<>>)}

RECURSIVE ScanChunk(_, _)
\* The scan of simulate_chunk over the cells, in order: every list of changes
\* it can queue.  A panic ends the scan.
ScanChunk(c, cells) ==
    IF cells = <<>> THEN {Ok(<<>>)}
    ELSE LET rest == ScanChunk(c, Tail(cells))
         IN  {IF a.panic \/ b.panic THEN Panicked ELSE Ok(a.changes \o b.changes) :
                 a \in SimulateVoxel(c, Head(cells)[1], Head(cells)[2], Head(cells)[3]),
                 b \in rest}

RECURSIVE SetEach(_, _)
\* chunk.set_voxel(x, y, z, new_voxel) for each change of the list, in order.
SetEach(c, changes) ==
    IF changes = <<>> THEN c
    ELSE SetEach(SetVoxel(c, Head(changes)[1], Head(changes)[2],
                          Head(changes)[3], Head(changes)[4]),
                 Tail(changes))

ApplyChangesLastFirst(c, changes) ==
    SetEach(c, [i \in 1..Len(changes) |-> changes[Len(changes) + 1 - i]])

ApplyChangesThenDirty(c, changes) ==
    [SetEach(c, changes) EXCEPT !.dirty = TRUE]

\* `for (x, y, z, new_voxel) in changes { chunk.set_voxel(x, y, z, new_voxel) }`
ApplyChanges(c, changes) == SetEach(c, changes)

RECURSIVE ScanInPlace(_, _)
ScanInPlace(c, cells) ==
    IF cells = <<>> THEN {Ok(<<>>)}
    ELSE UNION {
            IF a.panic THEN {Panicked}
            ELSE {IF b.panic THEN Panicked ELSE Ok(a.changes \o b.changes) :
                     b \in ScanInPlace(SetEach(c, a.changes), Tail(cells))}
         : a \in SimulateVoxel(c, Head(cells)[1], Head(cells)[2], Head(cells)[3])}

SimulateChunkInPlace(c) == ScanInPlace(c, LoopCells(Splat(0), Splat(CHUNK_SIZE)))

\* simulate_chunk: the lists of changes one step can queue (or a panic).
SimulateChunk(c) == ScanChunk(c, LoopCells(Splat(0), Splat(CHUNK_SIZE)))

\* simulate_fire_cpu for a frame of delta ms, with one registered chunk.
SimulateFireCpu(delta) ==
    /\ elapsed' = elapsed + delta
    /\ pre' = chunk
    /\ vx' = vx
    /\ IF ACCUMULATOR + delta < SIM_RATE
       THEN /\ ACCUMULATOR' = ACCUMULATOR + delta
            /\ sim_steps' = sim_steps
            /\ chunk' = chunk
            /\ last' = [op |-> "simulate_fire_cpu", delta |-> delta,
                        stepped |-> FALSE, scanned |-> FALSE,
                        panicked |-> FALSE, changes |-> <<>>]
       ELSE /\ ACCUMULATOR' = ACCUMULATOR + delta - SIM_RATE
            /\ sim_steps' = sim_steps + 1
            /\ IF ~chunk.has_dynamic_elements
               THEN /\ chunk' = chunk
                    /\ last' = [op |-> "simulate_fire_cpu", delta |-> delta,
                                stepped |-> TRUE, scanned |-> FALSE,
                                panicked |-> FALSE, changes |-> <<>>]
               ELSE \E o \in SimulateChunk(chunk) :
                      /\ chunk' = IF o.panic THEN chunk
                                  ELSE ApplyChanges(chunk, o.changes)
                      /\ last' = [op |-> "simulate_fire_cpu", delta |-> delta,
                                  stepped |-> TRUE, scanned |-> TRUE,
                                  panicked |-> o.panic, changes |-> o.changes]

(***************************************************************************)
(* One simulation step on a chunk the program can hold.                    *)
(***************************************************************************)
\* One voxel of each material.
SceneVoxels ==
    {VoxelAir, VoxelRock(255),
     VoxelNew("Dirt", 255, 0, FLAG_COLLISION),
     VoxelNew("Wood", 200, 0, FLAG_COLLISION),
     VoxelNew("Metal", 255, 0, FLAG_COLLISION),
     FireSphereVoxel, SmokeSphereVoxel, WaterSphereVoxel, DebrisVoxel}

\* A new chunk, and a new chunk in which set_voxel has written a fire voxel
\* and then air over it: has_dynamic_elements stays set.
StaleChunk(position) ==
    SetVoxel(SetVoxel(WorldChunkNew(position),
                      CHUNK_SIZE - 1, CHUNK_SIZE - 1, CHUNK_SIZE - 1, FireSphereVoxel),
             CHUNK_SIZE - 1, CHUNK_SIZE - 1, CHUNK_SIZE - 1, VoxelAir)

\* The chunks a step starts from: set_voxel has written any three voxels to
\* the cells (0,0,0), (0,1,0) above it and one cell beside either, and
\* update_chunk_textures has cleared the dirty flag.
\* Also: any voxel under rock or air in the next layer (z = 1), beside an
\* empty cell under water or air.
SimScenes ==
    {UpdateChunkTexture(
         SetVoxel(SetVoxel(SetVoxel(base, 0, 0, 0, lower), 0, 1, 0, upper),
                  1, sy, 0, side)) :
        base \in {WorldChunkNew(<<-1, 1, 0>>), StaleChunk(<<-1, 1, 0>>)},
        lower \in SceneVoxels, upper \in SceneVoxels,
        side \in SceneVoxels, sy \in {0, 1}}
    \cup
    {UpdateChunkTexture(
         SetVoxel(SetVoxel(SetVoxel(WorldChunkNew(<<-1, 1, 0>>),
                                    0, 1, 0, upper), 0, 0, 1, behind),
                  0, 1, 1, cover)) :
        upper \in {VoxelAir, WaterSphereVoxel}, behind \in SceneVoxels,
        cover \in {VoxelAir, VoxelRock(255)}}

InitSim ==
    /\ vx = VoxelAir
    /\ chunk \in SimScenes
    /\ ACCUMULATOR = 0
    /\ elapsed = 0
    /\ sim_steps = 0
    /\ NoManager
    /\ pre = chunk
    /\ last = [op |-> "init"]
    /\ AtRest

\* A frame that lets one simulation step run.
StepFrame ==
    /\ last.op = "init"
    /\ SimulateFireCpu(SIM_RATE)
    /\ UNCHANGED <<chunks, world, latest, ops,
                   image, SEED, overflow_checks, volume, render>>

NextSim == StepFrame

SpecSim == InitSim /\ [][NextSim]_vars

(***************************************************************************)
(* The scheduler over a sequence of frames.                                *)
(***************************************************************************)
\* The frames are followed until this much time has passed (ms).
MaxElapsed == 400

\* Frame durations (ms): shorter than, equal to and longer than SIM_RATE.
FrameDeltas == {1, 16, 33, 65, 66, 67, 100, 132, 200}

InitTimer ==
    /\ vx = VoxelAir
    /\ chunk = UpdateChunkTexture(WorldChunkNew(<<-1, 1, 0>>))
    /\ ACCUMULATOR = 0
    /\ elapsed = 0
    /\ sim_steps = 0
    /\ NoManager
    /\ pre = chunk
    /\ last = [op |-> "init"]
    /\ AtRest

Frame ==
    \E delta \in FrameDeltas :
        /\ elapsed + delta <= MaxElapsed
        /\ SimulateFireCpu(delta)
        /\ UNCHANGED <<chunks, world, latest, ops,
                       image, SEED, overflow_checks, volume, render>>

NextTimer == Frame

SpecTimer == InitTimer /\ [][NextTimer]_vars

(***************************************************************************)
(* The life of one chunk: created empty, then written, filled, rescanned,  *)
(* uploaded and simulated in any order.                                    *)
(***************************************************************************)
\* The number of operations a chunk's life is followed for.
MaxOps == 3

\* No operation follows a panic of the simulation system.
Alive == last.op = "simulate_fire_cpu" => ~last.panicked

LifeFrame ==
    /\ ops < MaxOps
    /\ Alive
    /\ ops' = ops + 1
    /\ pre' = chunk
    /\ UNCHANGED <<vx, ACCUMULATOR, elapsed, sim_steps, chunks, world, latest,
                   image, SEED, overflow_checks, volume, render>>

\* The cells set_voxel is called on: a cell, the top cell of its column and a
\* cell beyond the chunk's edge.
LifeCells == {<<0, 0, 0>>, <<0, CHUNK_SIZE - 1, 0>>, <<CHUNK_SIZE, 0, 0>>}
LifeVoxels ==
    {<<"Air", 0, 0, FLAG_NONE>>,
     <<"Rock", 255, 0, U8Or(FLAG_COLLISION, FLAG_STATIC)>>,
     <<"Fire", 255, 255, U8Or(FLAG_EMITS_LIGHT, FLAG_TEMPORARY)>>}

InitLife ==
    /\ vx = VoxelAir
    /\ chunk = WorldChunkNew(<<-1, 1, 0>>)
    /\ ACCUMULATOR = 0
    /\ elapsed = 0
    /\ sim_steps = 0
    /\ NoManager
    /\ pre = chunk
    /\ last = [op |-> "init"]
    /\ AtRest

LifeSetVoxel ==
    /\ \E cell \in LifeCells, a \in LifeVoxels :
          /\ chunk' = SetVoxel(chunk, cell[1], cell[2], cell[3],
                               VoxelNew(a[1], a[2], a[3], a[4]))
          /\ last' = [op |-> "set_voxel", x |-> cell[1], y |-> cell[2],
                      z |-> cell[3], material |-> a[1], density |-> a[2],
                      temperature |-> a[3], flags |-> a[4],
                      voxel |-> VoxelNew(a[1], a[2], a[3], a[4])]
    /\ LifeFrame

\* fill_region of the chunk's floor with rock (main.rs:83-89), or of the whole
\* chunk with air.
LifeFillRegion ==
    /\ \E f \in {<<1, VoxelRock(255)>>, <<CHUNK_SIZE, VoxelAir>>} :
          /\ chunk' = FillRegion(chunk, Splat(0), <<CHUNK_SIZE, f[1], CHUNK_SIZE>>, f[2])
          /\ last' = [op |-> "fill_region", min |-> Splat(0),
                      max |-> <<CHUNK_SIZE, f[1], CHUNK_SIZE>>, voxel |-> f[2]]
    /\ LifeFrame

\* fill_sphere of smoke around the centre of the voxel (0, 0, 0), reaching no
\* other voxel centre.
LifeFillSphere ==
    /\ chunk' = FillSphere(chunk, LocalToWorld(chunk, 0, 0, 0), 1, SmokeSphereVoxel)
    /\ last' = [op |-> "fill_sphere", center |-> LocalToWorld(chunk, 0, 0, 0),
                radius |-> 1, voxel |-> SmokeSphereVoxel]
    /\ LifeFrame

LifeRecalculate ==
    /\ chunk' = RecalculateDynamicStatus(chunk)
    /\ last' = [op |-> "recalculate_dynamic_status"]
    /\ LifeFrame

LifeUpdateTexture ==
    /\ chunk.dirty
    /\ chunk' = UpdateChunkTexture(chunk)
    /\ last' = [op |-> "update_chunk_textures"]
    /\ LifeFrame

\* spawn_fire_sphere around the centre of the top voxel of the column, reaching
\* no other voxel centre; the chunk is registered at its position.
LifeSpawn ==
    /\ LET world_pos == LocalToWorld(chunk, 0, CHUNK_SIZE - 1, 0)
       IN  /\ chunk' = SpawnFireSphere((11 :> chunk), {<<chunk.chunk_position, 11>>},
                                       world_pos, 1)[11]
           /\ last' = [op |-> "spawn_fire_sphere", world_pos |-> world_pos,
                       radius |-> 1]
    /\ LifeFrame

\* A frame in which one simulation step runs.
LifeSimulate ==
    /\ ops < MaxOps
    /\ Alive
    /\ ops' = ops + 1
    /\ SimulateFireCpu(SIM_RATE)
    /\ UNCHANGED <<chunks, world, latest,
                   image, SEED, overflow_checks, volume, render>>

NextLife ==
    \/ LifeSetVoxel
    \/ LifeFillRegion
    \/ LifeFillSphere
    \/ LifeRecalculate
    \/ LifeUpdateTexture
    \/ LifeSpawn
    \/ LifeSimulate

SpecLife == InitLife /\ [][NextLife]_vars

(***************************************************************************)
(* The chunk manager: any sequence of its operations.                      *)
(***************************************************************************)
\* Chunk positions (those main.rs registers are x, y in -1..1, z = 0) and
\* entities.
ManagerPositions == {<<0, 0, 0>>, <<-1, 1, 0>>, <<1, 0, 0>>}
EntitySamples == {11, 12}

\* World points (half units) around the origin, on both sides of the chunk
\* borders at 0 and at +-2 * CHUNK_SIZE.
WorldCoords == (-(2 * CHUNK_SIZE) - 1)..(2 * CHUNK_SIZE + 1)

InitManager ==
    /\ vx = VoxelAir
    /\ chunk = NoChunk
    /\ ACCUMULATOR = 0
    /\ elapsed = 0
    /\ sim_steps = 0
    /\ NoManager
    /\ pre = chunks
    /\ last = [op |-> "init"]
    /\ AtRest

ManagerFrame ==
    /\ pre' = chunks
    /\ UNCHANGED <<vx, chunk, ACCUMULATOR, elapsed, sim_steps, world, ops,
                   image, SEED, overflow_checks, volume, render>>

RegisterChunkOp ==
    /\ \E chunk_pos \in ManagerPositions, entity \in EntitySamples :
          /\ chunks' = RegisterChunk(chunks, chunk_pos, entity)
          /\ latest' = (chunk_pos :> Some(entity)) @@ latest
          /\ last' = [op |-> "register_chunk", chunk_pos |-> chunk_pos,
                      entity |-> entity]
    /\ ManagerFrame

UnregisterChunkOp ==
    /\ \E chunk_pos \in ManagerPositions :
          /\ chunks' = UnregisterChunk(chunks, chunk_pos).chunks
          /\ latest' = (chunk_pos :> None) @@ latest
          /\ last' = [op |-> "unregister_chunk", chunk_pos |-> chunk_pos,
                      ret |-> UnregisterChunk(chunks, chunk_pos).ret]
    /\ ManagerFrame

GetChunkEntityOp ==
    /\ \E chunk_pos \in ManagerPositions :
          last' = [op |-> "get_chunk_entity", chunk_pos |-> chunk_pos,
                   ret |-> GetChunkEntity(chunks, chunk_pos)]
    /\ UNCHANGED <<chunks, latest>>
    /\ ManagerFrame

\* world_to_chunk_pos is an associated function: it reads no state.
WorldToChunkPosOp ==
    /\ last.op = "init"
    /\ \E x \in WorldCoords, y \in WorldCoords, z \in {-2, 0, 2 * CHUNK_SIZE} :
          last' = [op |-> "world_to_chunk_pos", world_pos |-> <<x, y, z>>,
                   ret |-> WorldToChunkPos(<<x, y, z>>)]
    /\ UNCHANGED <<chunks, latest>>
    /\ ManagerFrame

NextManager ==
    \/ RegisterChunkOp
    \/ UnregisterChunkOp
    \/ GetChunkEntityOp
    \/ WorldToChunkPosOp

SpecManager == InitManager /\ [][NextManager]_vars

(***************************************************************************)
(* The element spawner, applied once to a world of registered chunks.      *)
(***************************************************************************)
\* Two neighbouring chunks and a distant one, each uploaded once, registered
\* at their positions; a fourth registration is of an entity that has no
\* chunk component.
SpawnWorld ==
    (11 :> UpdateChunkTexture(WorldChunkNew(<<0, 0, 0>>)))
      @@ (12 :> UpdateChunkTexture(WorldChunkNew(<<1, 0, 0>>)))
      @@ (13 :> UpdateChunkTexture(WorldChunkNew(<<14, 0, 0>>)))
SpawnMap ==
    RegisterChunk(RegisterChunk(RegisterChunk(RegisterChunk({},
        <<0, 0, 0>>, 11), <<1, 0, 0>>, 12), <<14, 0, 0>>, 13), <<0, 1, 0>>, 14)

\* Centres on both sides of the border between the neighbouring chunks
\* (half units), small radii for the single spheres and radii on which the
\* explosion's factors are exact (half units).
SpawnCenters ==
    {<<x, y, 1>> : x \in (2 * CHUNK_SIZE - 3)..(2 * CHUNK_SIZE + 3), y \in {1, 2}}
SphereRadii == {1, 2, 3}
ExplosionRadii == {50, 100}

InitSpawn ==
    /\ vx = VoxelAir
    /\ chunk = NoChunk
    /\ ACCUMULATOR = 0
    /\ elapsed = 0
    /\ sim_steps = 0
    /\ chunks = SpawnMap
    /\ world = SpawnWorld
    /\ latest = <<>>
    /\ ops = 0
    /\ pre = world
    /\ last = [op |-> "init"]
    /\ AtRest

SpawnFrame ==
    /\ last.op = "init"
    /\ pre' = world
    /\ UNCHANGED <<vx, chunk, ACCUMULATOR, elapsed, sim_steps, chunks, latest, ops,
                   image, SEED, overflow_checks, volume, render>>

SpawnFireSphereOp ==
    /\ \E world_pos \in SpawnCenters, radius \in SphereRadii :
          /\ world' = SpawnFireSphere(world, chunks, world_pos, radius)
          /\ last' = [op |-> "spawn_fire_sphere", world_pos |-> world_pos,
                      radius |-> radius]
    /\ SpawnFrame

SpawnSmokeSphereOp ==
    /\ \E world_pos \in SpawnCenters, radius \in SphereRadii :
          /\ world' = SpawnSmokeSphere(world, chunks, world_pos, radius)
          /\ last' = [op |-> "spawn_smoke_sphere", world_pos |-> world_pos,
                      radius |-> radius]
    /\ SpawnFrame

SpawnWaterSphereOp ==
    /\ \E world_pos \in SpawnCenters, radius \in SphereRadii :
          /\ world' = SpawnWaterSphere(world, chunks, world_pos, radius)
          /\ last' = [op |-> "spawn_water_sphere", world_pos |-> world_pos,
                      radius |-> radius]
    /\ SpawnFrame

SpawnExplosionOp ==
    /\ \E world_pos \in SpawnCenters, radius \in ExplosionRadii :
          /\ world' = SpawnExplosion(world, chunks, world_pos, radius)
          /\ last' = [op |-> "spawn_explosion", world_pos |-> world_pos,
                      radius |-> radius]
    /\ SpawnFrame

NextSpawn ==
    \/ SpawnFireSphereOp
    \/ SpawnSmokeSphereOp
    \/ SpawnWaterSphereOp
    \/ SpawnExplosionOp

SpecSpawn == InitSpawn /\ [][NextSpawn]_vars

(***************************************************************************)
(* Properties of the chunk fills (checked under SpecChunk).                *)
(***************************************************************************)
\* The voxel of chunk c at in-range local coordinates.
VoxelAt(c, x, y, z) == Unwrap(GetVoxel(c, x, y, z))

\* The squared distance (in half units) from the sphere's centre to the
\* world-space centre of the voxel: chunk minimum corner + local + 0.5.
CentreDistSq(x, y, z) ==
    DistanceSquared(last.center,
                    VecAdd(pre.world_bounds.min, <<2 * x + 1, 2 * y + 1, 2 * z + 1>>))

\* C1: after fill_sphere(center, r, voxel), every voxel of the chunk whose
\* world-space centre is at distance <= r from center holds the new voxel and
\* every voxel at distance > r keeps the value it had before the call.
C1_SphereFillContainment ==
    last.op = "fill_sphere" =>
        \A x \in LocalCoords, y \in LocalCoords, z \in LocalCoords :
            IF CentreDistSq(x, y, z) <= last.radius * last.radius
            THEN VoxelAt(chunk, x, y, z) = last.voxel
            ELSE VoxelAt(chunk, x, y, z) = VoxelAt(pre, x, y, z)

\* The half-open box of a fill_region call, cut to the chunk.
InRegion(x, y, z) ==
    /\ last.min[1] <= x /\ x < Min(last.max[1], CHUNK_SIZE)
    /\ last.min[2] <= y /\ y < Min(last.max[2], CHUNK_SIZE)
    /\ last.min[3] <= z /\ z < Min(last.max[3], CHUNK_SIZE)

MinInsideChunk ==
    last.min[1] < CHUNK_SIZE /\ last.min[2] < CHUNK_SIZE /\ last.min[3] < CHUNK_SIZE

\* C2: for a min corner with every coordinate < 64, fill_region(min, max,
\* voxel) overwrites exactly the voxels with min <= coordinate < min(max, 64)
\* on every axis; every other voxel keeps its prior value, and when that box
\* is empty the chunk, its dirty flag included, is unchanged.
C2_FillRegionHalfOpen ==
    (last.op = "fill_region" /\ MinInsideChunk) =>
        /\ \A x \in LocalCoords, y \in LocalCoords, z \in LocalCoords :
              IF InRegion(x, y, z)
              THEN VoxelAt(chunk, x, y, z) = last.voxel
              ELSE VoxelAt(chunk, x, y, z) = VoxelAt(pre, x, y, z)
        /\ (~\E x \in LocalCoords, y \in LocalCoords, z \in LocalCoords :
                InRegion(x, y, z))
              => (chunk.voxels = pre.voxels /\ chunk.dirty = pre.dirty)

\* A fill_region call with its min corner inside the chunk has overwritten
\* part of a checkerboard chunk whose dirty flag was clear: a voxel of the
\* box changed, a wood voxel outside the box is still there.
C2_Witness ==
    /\ last.op = "fill_region" /\ MinInsideChunk
    /\ ~pre.dirty /\ chunk.dirty
    /\ last.max[1] < CHUNK_SIZE
    /\ \E x \in LocalCoords, y \in LocalCoords, z \in LocalCoords :
          InRegion(x, y, z) /\ VoxelAt(chunk, x, y, z) # VoxelAt(pre, x, y, z)
    /\ \E x \in LocalCoords, y \in LocalCoords, z \in LocalCoords :
          ~InRegion(x, y, z) /\ Material(VoxelAt(chunk, x, y, z)) = "Wood"

\* C3: a fill_region call whose min corner has a coordinate >= 64 on some
\* axis is a silent no-op: no voxel changes and the dirty and
\* has_dynamic_elements flags keep their values.
C3_RegionOutsideIsNoOp ==
    (last.op = "fill_region" /\ ~MinInsideChunk) =>
        /\ chunk.voxels = pre.voxels
        /\ chunk.dirty = pre.dirty
        /\ chunk.has_dynamic_elements = pre.has_dynamic_elements

\* C8: the packed word of VoxelData::new(m, d, t, f) is
\* tag + 256*d + 65536*t + 16777216*f (stated on its two 16-bit halves), and
\* as_u32_slice holds the chunk's voxels as these words at index
\* z*64*64 + y*64 + x.
C8_PackedLayout ==
    /\ \A x \in LocalCoords, y \in LocalCoords, z \in LocalCoords :
          AsU32Slice(chunk)[z * CHUNK_SIZE * CHUNK_SIZE + y * CHUNK_SIZE + x]
              = VoxelAsU32(VoxelAt(chunk, x, y, z))
    /\ (last.op = "set_voxel" /\ last.x < CHUNK_SIZE /\ last.y < CHUNK_SIZE
            /\ last.z < CHUNK_SIZE) =>
          LET w == AsU32Slice(chunk)[last.z * CHUNK_SIZE * CHUNK_SIZE
                                       + last.y * CHUNK_SIZE + last.x]
          IN  /\ Lo16(w) = MaterialAsU8(last.material) + 256 * last.density
              /\ Hi16(w) = last.temperature + 256 * last.flags
              /\ w = <<MaterialAsU8(last.material), last.density,
                       last.temperature, last.flags>>

\* set_voxel has stored a voxel with all four fields nonzero, flags with
\* bit 31 of the word set, at x = 1, y = 0 in the top z layer.
C8_Witness ==
    /\ last.op = "set_voxel"
    /\ last.x = 1 /\ last.y = 0 /\ last.z = CHUNK_SIZE - 1
    /\ last.material = "Debris" /\ last.density = 255
    /\ last.temperature = 128 /\ last.flags = 170
    /\ VoxelAt(chunk, 1, 0, CHUNK_SIZE - 1) = last.voxel
    /\ VoxelAt(pre, 1, 0, CHUNK_SIZE - 1) # last.voxel

(***************************************************************************)
(* Properties of the voxel codec (checked under SpecVoxel).                *)
(***************************************************************************)
\* Bit i of the byte b.
BitOf(b, i) == (b \div (2 ^ i)) % 2

\* C7: for every material, density, temperature and flags, decoding the
\* packed word of VoxelData::new(m, d, t, f) gives back all four fields, and
\* has_flag is true for every flag bit set in f.
C7_RoundTrip ==
    last.op = "new" =>
        LET u == VoxelFromU32(VoxelAsU32(vx))
        IN  /\ Material(u) = last.material
            /\ Density(u) = last.density
            /\ Temperature(u) = last.temperature
            /\ Flags(u) = last.flags
            /\ \A i \in 0..7 : BitOf(last.flags, i) = 1 => HasFlag(u, 2 ^ i)

\* VoxelData::new has packed a voxel whose four fields are all nonzero and
\* pairwise different.
C7_Witness ==
    /\ last.op = "new"
    /\ last.material = "Water" /\ last.density = 255
    /\ last.temperature = 1 /\ last.flags = 170
    /\ vx.data = <<7, 255, 1, 170>>

\* C9: decoding is total: for every word, material() is a defined material,
\* the tag k when the low byte is k in 1..8 and Air (is_empty) otherwise.
C9_DecodeTotal ==
    last.op = "from_u32" =>
        LET k == last.data[1]
        IN  /\ Material(vx) \in MaterialType
            /\ k \in 1..8 => MaterialAsU8(Material(vx)) = k
            /\ k \notin 1..8 => (Material(vx) = "Air" /\ IsEmpty(vx))

\* A word whose low byte is no defined tag, with other bytes set, was decoded.
C9_Witness ==
    /\ last.op = "from_u32"
    /\ last.data[1] = 255 /\ last.data[2] = 170 /\ last.data[4] = 254
    /\ IsEmpty(vx)

\* The three fields a mutator must leave alone.
SameMaterial    == Material(vx) = Material(pre)
SameDensity     == Density(vx) = Density(pre)
SameTemperature == Temperature(vx) = Temperature(pre)
SameFlags       == Flags(vx) = Flags(pre)

\* C10: each mutator touches only its own 8-bit field: the matching getter
\* returns the argument and the other three getters what they returned
\* before; add_flag gives old | f and remove_flag old & ~f.
C10_MutatorsTouchOwnField ==
    /\ last.op = "set_material" =>
          Material(vx) = last.arg /\ SameDensity /\ SameTemperature /\ SameFlags
    /\ last.op = "set_density" =>
          Density(vx) = last.arg /\ SameMaterial /\ SameTemperature /\ SameFlags
    /\ last.op = "set_temperature" =>
          Temperature(vx) = last.arg /\ SameMaterial /\ SameDensity /\ SameFlags
    /\ last.op = "set_flags" =>
          Flags(vx) = last.arg /\ SameMaterial /\ SameDensity /\ SameTemperature
    /\ last.op = "add_flag" =>
          /\ \A i \in 0..7 : BitOf(Flags(vx), i) = 1
                  <=> (BitOf(Flags(pre), i) = 1 \/ BitOf(last.arg, i) = 1)
          /\ SameMaterial /\ SameDensity /\ SameTemperature
    /\ last.op = "remove_flag" =>
          /\ \A i \in 0..7 : BitOf(Flags(vx), i) = 1
                  <=> (BitOf(Flags(pre), i) = 1 /\ BitOf(last.arg, i) = 0)
          /\ SameMaterial /\ SameDensity /\ SameTemperature

\* set_density has changed the density of a word whose other three bytes
\* are all nonzero.
C10_Witness ==
    /\ last.op = "set_density"
    /\ pre.data = <<9, 170, 255, 254>>
    /\ last.arg = 1
    /\ vx.data = <<9, 1, 255, 254>>

(***************************************************************************)
(* Properties of the simulation (checked under SpecSim and SpecTimer).     *)
(***************************************************************************)
\* A step has run to its end on the chunk: simulate_chunk scanned it and
\* applied its changes.
StepCompleted ==
    last.op = "simulate_fire_cpu" /\ last.scanned /\ ~last.panicked

\* C4: if before a simulation step a water voxel is at (x,y,z), y >= 1, and
\* a fire voxel at (x,y-1,z), then after the step (x,y,z) is empty (air) and
\* (x,y-1,z) is smoke with density 150 and temperature 50, whatever the
\* draws and whatever else the step queued.
C4_WaterExtinguishesFire ==
    StepCompleted =>
        \A x \in LocalCoords, y \in 1..(CHUNK_SIZE - 1), z \in LocalCoords :
            (/\ Material(VoxelAt(pre, x, y, z)) = "Water"
             /\ Material(VoxelAt(pre, x, y - 1, z)) = "Fire")
            => /\ VoxelAt(chunk, x, y, z) = VoxelAir
               /\ Material(VoxelAt(chunk, x, y - 1, z)) = "Smoke"
               /\ Density(VoxelAt(chunk, x, y - 1, z)) = 150
               /\ Temperature(VoxelAt(chunk, x, y - 1, z)) = 50

\* A step has run on water above fire in which the fire voxel also queued
\* its own change to smoke 200/150, with a fire voxel beside the water.
C4_Witness ==
    /\ StepCompleted
    /\ Material(VoxelAt(pre, 0, 1, 0)) = "Water"
    /\ Material(VoxelAt(pre, 0, 0, 0)) = "Fire"
    /\ Material(VoxelAt(pre, 1, 1, 0)) = "Fire"
    /\ \E i \in DOMAIN last.changes :
          last.changes[i] = <<0, 0, 0, VoxelNew("Smoke", 200, 150, 0)>>
    /\ Density(VoxelAt(chunk, 0, 0, 0)) = 150
    /\ IsEmpty(VoxelAt(chunk, 0, 1, 0))

\* Only empty voxels and static materials.
OnlyStatic(c) ==
    \A i \in DOMAIN c.voxels :
        Material(c.voxels[i]) \in {"Air", "Rock", "Dirt", "Wood", "Metal"}

\* C5: one simulation step on a chunk that contains only empty voxels and
\* static materials leaves every voxel word, the dirty flag and the
\* has_dynamic_elements flag as they were.
C5_StaticChunkUnchanged ==
    (last.op = "simulate_fire_cpu" /\ last.stepped /\ OnlyStatic(pre)) =>
        /\ AsU32Slice(chunk) = AsU32Slice(pre)
        /\ chunk.dirty = pre.dirty
        /\ chunk.has_dynamic_elements = pre.has_dynamic_elements

\* simulate_chunk has scanned a chunk of rock, wood and air whose
\* has_dynamic_elements flag was still set and whose dirty flag was clear.
C5_Witness ==
    /\ last.op = "simulate_fire_cpu" /\ last.scanned
    /\ OnlyStatic(pre) /\ ~pre.dirty /\ pre.has_dynamic_elements
    /\ Material(VoxelAt(pre, 0, 0, 0)) = "Rock"
    /\ Material(VoxelAt(pre, 0, 1, 0)) = "Wood"
    /\ Material(VoxelAt(pre, 1, 1, 0)) = "Metal"

\* C6: over any sequence of frames, the number of simulation steps run so
\* far equals floor(total elapsed time / step interval).
C6_FixedRate == sim_steps = elapsed \div SIM_RATE

(***************************************************************************)
(* Properties of get_voxel and set_voxel (checked under SpecChunk).        *)
(***************************************************************************)
SetInRange ==
    /\ last.op = "set_voxel"
    /\ last.x < CHUNK_SIZE /\ last.y < CHUNK_SIZE /\ last.z < CHUNK_SIZE

SetOutOfRange ==
    /\ last.op = "set_voxel"
    /\ (last.x >= CHUNK_SIZE \/ last.y >= CHUNK_SIZE \/ last.z >= CHUNK_SIZE)

\* C11: with a coordinate >= CHUNK_SIZE on any axis, get_voxel returns no
\* value (before and after the call) and set_voxel leaves the whole chunk,
\* its voxels, dirty and has_dynamic_elements, as it was.
C11_OutOfRangeIsNoOp ==
    SetOutOfRange =>
        /\ GetVoxel(pre, last.x, last.y, last.z) = None
        /\ GetVoxel(chunk, last.x, last.y, last.z) = None
        /\ chunk.voxels = pre.voxels
        /\ chunk.dirty = pre.dirty
        /\ chunk.has_dynamic_elements = pre.has_dynamic_elements
        /\ chunk = pre

\* An out-of-range set_voxel of a dynamic voxel on a clean, static chunk: an
\* in-range one would have set both flags.
C11_Witness ==
    /\ SetOutOfRange
    /\ last.x = CHUNK_SIZE /\ last.y < CHUNK_SIZE /\ last.z < CHUNK_SIZE
    /\ MaterialIsDynamic(last.material)
    /\ ~pre.dirty
    /\ ~pre.has_dynamic_elements

\* C14: after an in-range set_voxel(x, y, z, v), get_voxel(x, y, z) returns v
\* and get_voxel at every other in-range coordinate returns what it returned
\* before the call.
C14_SetThenGet ==
    SetInRange =>
        /\ GetVoxel(chunk, last.x, last.y, last.z) = Some(last.voxel)
        /\ \A x \in LocalCoords, y \in LocalCoords, z \in LocalCoords :
              <<x, y, z>> # <<last.x, last.y, last.z>> =>
                  GetVoxel(chunk, x, y, z) = GetVoxel(pre, x, y, z)

\* An in-range set_voxel that changes its cell, in a chunk whose other cells
\* hold rock and wood.
C14_Witness ==
    /\ SetInRange
    /\ GetVoxel(pre, last.x, last.y, last.z) # Some(last.voxel)
    /\ last.y = CHUNK_SIZE - 1
    /\ \E x \in LocalCoords, z \in LocalCoords :
          /\ <<x, 0, z>> # <<last.x, last.y, last.z>>
          /\ Material(VoxelAt(chunk, x, 0, z)) = "Wood"

(***************************************************************************)
(* Properties of the world-to-local conversion (checked under SpecChunk).  *)
(***************************************************************************)
\* The offset of the world point from the minimum corner of the box, the
\* per-axis floor of it in voxels, and where the point is.
PointOffset == VecSub(last.world_pos, pre.world_bounds.min)
FloorCell == <<PointOffset[1] \div 2, PointOffset[2] \div 2, PointOffset[3] \div 2>>
InsideBox ==
    \A i \in 1..3 : PointOffset[i] >= 0 /\ PointOffset[i] <= 2 * CHUNK_SIZE
OnMaxFace ==
    InsideBox /\ \E i \in 1..3 : PointOffset[i] = 2 * CHUNK_SIZE

\* The calls addressed no voxel: the chunk is as before and nothing is read.
AddressedNone == chunk = pre /\ last.got = None

\* The calls addressed the voxel at cell: it holds the written voxel, which
\* is read back, and every other voxel is as before.
AddressedCell(cell) ==
    /\ last.got = Some(last.voxel)
    /\ \A x \in LocalCoords, y \in LocalCoords, z \in LocalCoords :
          GetVoxel(chunk, x, y, z) =
              IF <<x, y, z>> = cell THEN Some(last.voxel)
              ELSE GetVoxel(pre, x, y, z)

\* C15 as stated: world-to-local conversion gives no value exactly for the
\* points outside the bounding box, and for every point of the box, its
\* faces included, addresses the voxel at the per-axis floor of
\* (point - box minimum).
C15_WholeBoxAddressed ==
    last.op = "set_voxel_world" =>
        IF InsideBox THEN AddressedCell(FloorCell) ELSE AddressedNone

\* C15 (amended): the conversion gives no value for the points outside the
\* bounding box and for the points on one of its three maximum faces; for
\* every other point of the box it addresses the voxel at the per-axis floor
\* of (point - box minimum).
C15_HalfOpenBoxAddressed ==
    last.op = "set_voxel_world" =>
        IF InsideBox /\ ~OnMaxFace THEN AddressedCell(FloorCell)
        ELSE AddressedNone

\* A point on the minimum x face of the box, half a voxel below its maximum
\* y face, is written and read back.
C15_Witness ==
    /\ last.op = "set_voxel_world"
    /\ InsideBox /\ ~OnMaxFace
    /\ PointOffset[1] = 0 /\ PointOffset[2] = 2 * CHUNK_SIZE - 1
    /\ chunk # pre
    /\ last.got = Some(last.voxel)

(***************************************************************************)
(* Properties of a chunk's flags and size (checked under SpecLife).        *)
(***************************************************************************)
DynamicTags == {"Fire", "Smoke", "Water", "Debris"}

\* The in-range cells of chunk c that hold a dynamic material.
DynamicCells(c) ==
    {cell \in LocalCoords \X LocalCoords \X LocalCoords :
        Material(VoxelAt(c, cell[1], cell[2], cell[3])) \in DynamicTags}

\* C12: an in-range set_voxel(x, y, z, v) sets dirty, sets
\* has_dynamic_elements when v's material is fire, smoke, water or debris,
\* and never clears has_dynamic_elements, also not when it overwrites the
\* last dynamic voxel of the chunk.
C12_SetVoxelFlags ==
    SetInRange =>
        /\ chunk.dirty
        /\ (last.material \in DynamicTags => chunk.has_dynamic_elements)
        /\ (pre.has_dynamic_elements => chunk.has_dynamic_elements)
        /\ (chunk.has_dynamic_elements =>
               pre.has_dynamic_elements \/ last.material \in DynamicTags)

\* set_voxel has overwritten the only dynamic voxel of a clean chunk with
\* a static or empty one: the flag stays set over a chunk without dynamics.
C12_Witness ==
    /\ SetInRange
    /\ ~pre.dirty
    /\ DynamicCells(pre) = {<<last.x, last.y, last.z>>}
    /\ last.material \notin DynamicTags
    /\ DynamicCells(chunk) = {}
    /\ chunk.has_dynamic_elements

\* C13: after recalculate_dynamic_status, has_dynamic_elements holds exactly
\* when some voxel of the chunk has a dynamic material, whatever the flag was
\* before; the voxels and the dirty flag are as before.
C13_RescanExact ==
    last.op = "recalculate_dynamic_status" =>
        /\ chunk.has_dynamic_elements = (DynamicCells(chunk) # {})
        /\ chunk.voxels = pre.voxels
        /\ chunk.dirty = pre.dirty

\* The rescan of a chunk whose flag was set and whose dynamic voxels are
\* gone clears the flag.
C13_Witness ==
    /\ last.op = "recalculate_dynamic_status"
    /\ pre.has_dynamic_elements
    /\ DynamicCells(pre) = {}
    /\ ~chunk.has_dynamic_elements

\* C20: a chunk holds exactly CHUNK_SIZE^3 voxels in every state; it is
\* created with every voxel empty, dirty set and has_dynamic_elements clear,
\* and no operation changes the number of voxels.
C20_ChunkSizeFixed ==
    /\ DOMAIN chunk.voxels = 0..(CHUNK_SIZE * CHUNK_SIZE * CHUNK_SIZE - 1)
    /\ Cardinality(DOMAIN pre.voxels) = CHUNK_SIZE * CHUNK_SIZE * CHUNK_SIZE
    /\ last.op = "init" =>
          /\ \A i \in DOMAIN chunk.voxels :
                /\ Material(chunk.voxels[i]) = "Air"
                /\ VoxelAsU32(chunk.voxels[i]) = <<0, 0, 0, 0>>
          /\ chunk.dirty
          /\ ~chunk.has_dynamic_elements

\* A simulation step has moved voxels in a chunk that was filled before.
C20_Witness ==
    /\ last.op = "simulate_fire_cpu"
    /\ ops = MaxOps
    /\ last.scanned /\ ~last.panicked
    /\ Len(last.changes) >= 2
    /\ chunk.voxels # pre.voxels

(***************************************************************************)
(* Properties of the chunk manager (checked under SpecManager).            *)
(***************************************************************************)
\* C16: world_to_chunk_pos floors: on each axis the result c brackets the
\* coordinate, CHUNK_SIZE * c <= coordinate < CHUNK_SIZE * (c + 1) (here in
\* half units); the origin maps to chunk 0, the point one chunk edge along
\* each axis to chunk 1 and the point (-1, -1, -1) to chunk -1.
C16_FloorNotTruncation ==
    last.op = "world_to_chunk_pos" =>
        /\ \A i \in 1..3 :
              /\ 2 * CHUNK_SIZE * last.ret[i] <= last.world_pos[i]
              /\ last.world_pos[i] < 2 * CHUNK_SIZE * (last.ret[i] + 1)
        /\ (last.world_pos = <<0, 0, 0>> => last.ret = <<0, 0, 0>>)
        /\ (last.world_pos = <<-2, -2, -2>> => last.ret = <<-1, -1, -1>>)
        /\ (last.world_pos = Splat(2 * CHUNK_SIZE) => last.ret = <<1, 1, 1>>)

\* The point (-1, -1, -1), which truncation would put in chunk (0, 0, 0).
C16_Witness ==
    /\ last.op = "world_to_chunk_pos"
    /\ last.world_pos = <<-2, -2, -2>>
    /\ last.ret = <<-1, -1, -1>>

\* The entity the bookkeeping expects at a position.
LatestAt(p) == IF p \in DOMAIN latest THEN latest[p] ELSE None

\* Every position other than that of the last call maps as before.
OthersUnchanged ==
    \A q \in ManagerPositions :
        q # last.chunk_pos => GetChunkEntity(chunks, q) = GetChunkEntity(pre, q)

\* C17: each position maps to at most one entity; get_chunk_entity(p) is the
\* entity of the latest register_chunk(p, .) not followed by
\* unregister_chunk(p), and no value otherwise; registering a present
\* position replaces the entity; unregister_chunk(p) returns the removed
\* entity; neither changes another position's mapping.
C17_ManagerIsAMap ==
    /\ \A a \in chunks, b \in chunks : a[1] = b[1] => a = b
    /\ \A p \in ManagerPositions : GetChunkEntity(chunks, p) = LatestAt(p)
    /\ last.op = "register_chunk" =>
          /\ GetChunkEntity(chunks, last.chunk_pos) = Some(last.entity)
          /\ OthersUnchanged
    /\ last.op = "unregister_chunk" =>
          /\ last.ret = GetChunkEntity(pre, last.chunk_pos)
          /\ GetChunkEntity(chunks, last.chunk_pos) = None
          /\ OthersUnchanged
    /\ last.op = "get_chunk_entity" =>
          /\ last.ret = LatestAt(last.chunk_pos)
          /\ chunks = pre

\* A position that was registered, re-registered with another entity and
\* then unregistered, while two other positions stay registered.
C17_Witness ==
    /\ last.op = "unregister_chunk"
    /\ IsSome(last.ret)
    /\ Cardinality(chunks) = 2
    /\ Cardinality(pre) = 3

(***************************************************************************)
(* Properties of the element spawner (checked under SpecSpawn).            *)
(***************************************************************************)
\* The world after three sphere fills at the centre of the last call, on
\* every affected registered chunk: fire of radius 0.5 r, smoke of radius r,
\* debris of radius 1.2 r.
ThreeFills ==
    SpawnElementSphere(
        SpawnElementSphere(
            SpawnElementSphere(pre, chunks, last.world_pos,
                               last.radius \div 2, FireSphereVoxel),
            chunks, last.world_pos, last.radius, SmokeSphereVoxel),
        chunks, last.world_pos, (6 * last.radius) \div 5, DebrisVoxel)

\* C18: spawn_explosion(center, r) performs three sphere fills at the same
\* centre on every affected registered chunk: fire of radius 0.5 r, smoke of
\* radius r and debris of radius 1.2 r.
C18_ExplosionRadii ==
    last.op = "spawn_explosion" => world = ThreeFills

(***************************************************************************)
(* Properties of the classification (checked under SpecVoxel).             *)
(***************************************************************************)
\* The material tag of the voxel (its low byte) and its collision bit.
TagOf(v) == VoxelAsU32(v)[1]
CollisionBit(v) == BitOf(VoxelAsU32(v)[4], 0)

\* C19 as stated: solid and dynamic are functions of the material tag alone:
\* a voxel is solid exactly for rock, dirt, wood and metal (tags 1..4),
\* dynamic exactly for fire, smoke, water and debris (tags 5..8), and two
\* voxels of the same material get the same answers whatever their other
\* bytes are.
C19_ClassifiedByTagAlone ==
    /\ IsSolid(vx) = (TagOf(vx) \in 1..4)
    /\ MaterialIsDynamic(Material(vx)) = (TagOf(vx) \in 5..8)
    /\ Material(vx) = Material(pre) =>
          /\ IsSolid(vx) = IsSolid(pre)
          /\ MaterialIsDynamic(Material(vx)) = MaterialIsDynamic(Material(pre))

\* C19 (amended): the material's classification is a function of the tag
\* alone (solid for tags 1..4, dynamic for tags 5..8, neither for empty and
\* unknown tags); a voxel is solid exactly when its material is solid or its
\* collision flag is set, so two voxels with the same material and the same
\* collision bit get the same answers whatever their other bits are.
C19_ClassifiedByTagAndCollision ==
    /\ MaterialIsSolid(Material(vx)) = (TagOf(vx) \in 1..4)
    /\ MaterialIsDynamic(Material(vx)) = (TagOf(vx) \in 5..8)
    /\ IsSolid(vx) = (TagOf(vx) \in 1..4 \/ CollisionBit(vx) = 1)
    /\ (Material(vx) = Material(pre) /\ CollisionBit(vx) = CollisionBit(pre)) =>
          /\ IsSolid(vx) = IsSolid(pre)
          /\ MaterialIsDynamic(Material(vx)) = MaterialIsDynamic(Material(pre))

\* A rock voxel stays solid when remove_flag clears its collision flag, and
\* its other bytes are not all zero.
C19_Witness ==
    /\ last.op = "remove_flag"
    /\ Material(pre) = "Rock" /\ Material(vx) = "Rock"
    /\ CollisionBit(pre) = 1 /\ CollisionBit(vx) = 0
    /\ Density(vx) # 0 /\ Temperature(vx) # 0
    /\ IsSolid(vx)

(***************************************************************************)
(* The random generator over a sequence of calls.                          *)
(***************************************************************************)
\* The number of calls the generator is followed for.
MaxCalls == 3

\* States of SEED a build without overflow checks reaches from 12345: the
\* eight states before each of the calls number 52357832, 145374714 and
\* 164829142, which set SEED to 4294967233, 4294967243 and 4294967175.
SeedSamples ==
    {<<33017, 63029>>, <<46596, 42714>>, <<51603, 41075>>, <<49622, 13307>>,
     <<3901, 7513>>, <<1912, 45820>>, <<9335, 30957>>, <<14186, 27808>>,
     <<42947, 22518>>, <<10822, 23768>>, <<64749, 13590>>, <<14696, 51845>>,
     <<19879, 13626>>, <<28378, 49316>>, <<28785, 23613>>, <<44828, 24931>>,
     <<40959, 48955>>, <<44370, 21532>>, <<27785, 56308>>, <<3156, 25720>>,
     <<2979, 24485>>, <<31910, 64862>>, <<27597, 60443>>, <<6856, 44492>>}

\* The program starts with SEED = 12345; a build that traps on overflow is
\* followed from there only.
InitRandom ==
    /\ vx = VoxelAir
    /\ chunk = NoChunk
    /\ ACCUMULATOR = 0
    /\ elapsed = 0
    /\ sim_steps = 0
    /\ NoManager
    /\ image = NoImage
    /\ volume = <<>>
    /\ render = <<>>
    /\ overflow_checks \in BOOLEAN
    /\ SEED \in IF overflow_checks THEN {SeedInitial}
                ELSE {SeedInitial} \cup SeedSamples
    /\ pre = SEED
    /\ last = [op |-> "init"]

RandomFrame ==
    /\ ops < MaxCalls
    /\ last.op # "init" => ~last.panicked
    /\ ops' = ops + 1
    /\ pre' = SEED
    /\ UNCHANGED <<vx, chunk, ACCUMULATOR, elapsed, sim_steps, chunks, world,
                   latest, image, overflow_checks, volume, render>>

\* `if simple_random() < 0.05` and the like: a draw compared with a
\* threshold.
ThresholdDraw ==
    /\ LET r == SimpleRandom(SEED, overflow_checks)
       IN  /\ SEED' = r.seed
           /\ last' = [op |-> "threshold_draw", panicked |-> r.panic,
                       draw |-> r.draw]
    /\ RandomFrame

\* `dirs[(simple_random() * 4.0) as usize]`: a draw that indexes dirs.
DirectionDraw ==
    /\ LET r == SimpleRandom(SEED, overflow_checks)
       IN  /\ SEED' = r.seed
           /\ last' = [op |-> "direction_draw",
                       panicked |-> r.panic \/ DirectionIndex(r.draw) >= Len(dirs),
                       draw |-> r.draw, index |-> DirectionIndex(r.draw)]
    /\ RandomFrame

NextRandom ==
    \/ ThresholdDraw
    \/ DirectionDraw

SpecRandom == InitRandom /\ [][NextRandom]_vars

(***************************************************************************)
(* Properties of the random generator (checked under SpecRandom).          *)
(***************************************************************************)
\* C27: every value simple_random returns is >= 0 and < 1 and its state
\* update never aborts, so the direction index floor(4 * draw) is in 0..3
\* and no call ends abnormally.
C27_DrawsBelowOne ==
    last.op \in {"threshold_draw", "direction_draw"} =>
        /\ ~last.panicked
        /\ BelowOne(last.draw)
        /\ last.op = "direction_draw" => last.index \in 0..3

(***************************************************************************)
(* Properties of the transition rules (checked under SpecSim).             *)
(***************************************************************************)
Cells == LocalCoords \X LocalCoords \X LocalCoords

At(c, cell) == VoxelAt(c, cell[1], cell[2], cell[3])

\* The cells of chunk c whose material has a transition rule.
ActiveCells(c) ==
    {cell \in Cells : Material(At(c, cell)) \in {"Fire", "Smoke", "Water"}}

Abs(n) == IF n < 0 THEN -n ELSE n

\* The same cell or one that shares a face with it.
Near(a, b) == Abs(a[1] - b[1]) + Abs(a[2] - b[2]) + Abs(a[3] - b[3]) <= 1

\* The cells beside a cell, at x +- 1 or z +- 1 of the same layer.
HorizontalNeighbours(cell) ==
    {n \in Cells : n[2] = cell[2] /\ Near(n, cell) /\ n # cell}

Above(cell) == <<cell[1], cell[2] + 1, cell[3]>>
Below(cell) == <<cell[1], cell[2] - 1, cell[3]>>

\* simulate_chunk has scanned the chunk (to its end, or to a panic).
StepScanned == last.op = "simulate_fire_cpu" /\ last.scanned

\* The cell a queued change writes, and the cells a list of changes writes.
Target(change) == <<change[1], change[2], change[3]>>
Targets(changes) == {Target(changes[i]) : i \in DOMAIN changes}

\* Every cell no change writes is as it was before the step, and every cell
\* written once holds the voxel written.
OnlyWritten(changes) ==
    /\ \A cell \in Cells \ Targets(changes) : At(chunk, cell) = At(pre, cell)
    /\ \A i \in DOMAIN changes :
          (\A j \in DOMAIN changes : Target(changes[j]) = Target(changes[i]) => j = i)
          => At(chunk, Target(changes[i])) = changes[i][4]

\* C23: within one step every rule reads the voxels the chunk had before the
\* step and the changes are written after the scan, so that a fire, smoke
\* or water voxel found after the step was at most one cell away before it
\* (smoke may also stand where fire was), and a fire voxel alone under a
\* column of empty cells either turns to smoke or rises exactly one cell.
C23_ScanThenApply ==
    StepScanned =>
        /\ \A cell \in Cells :
              Material(At(chunk, cell)) \in {"Fire", "Smoke", "Water"} =>
                  \/ \E src \in Cells :
                        /\ Near(src, cell)
                        /\ Material(At(pre, src)) = Material(At(chunk, cell))
                  \/ /\ Material(At(chunk, cell)) = "Smoke"
                     /\ Material(At(pre, cell)) = "Fire"
        /\ \A cell \in Cells :
              (/\ Material(At(pre, cell)) = "Fire"
               /\ ActiveCells(pre) = {cell}
               /\ cell[2] < CHUNK_SIZE - 1
               /\ \A up \in Cells :
                     (up[1] = cell[1] /\ up[3] = cell[3] /\ up[2] > cell[2])
                     => IsEmpty(At(pre, up)))
              => \/ /\ Material(At(chunk, cell)) = "Smoke"
                    /\ \A other \in Cells \ {cell} : At(chunk, other) = At(pre, other)
                 \/ /\ IsEmpty(At(chunk, cell))
                    /\ At(chunk, Above(cell)) = At(pre, cell)
                    /\ \A other \in Cells \ {cell, Above(cell)} :
                          At(chunk, other) = At(pre, other)

\* A step has run in which the fire at (0,0,0), under a solid cell, ignited
\* the empty cell beside it, which has an empty cell above: the new fire is
\* still beside the old one after the step and the cell above it is empty.
C23_Witness ==
    /\ StepCompleted
    /\ Material(At(pre, <<0, 0, 0>>)) = "Fire"
    /\ Material(At(pre, <<0, 1, 0>>)) = "Rock"
    /\ IsEmpty(At(pre, <<1, 0, 0>>)) /\ IsEmpty(At(pre, <<1, 1, 0>>))
    /\ last.changes = <<(<<1, 0, 0, VoxelNew("Fire", 255, 200, 0)>>)>>
    /\ Material(At(chunk, <<1, 0, 0>>)) = "Fire"
    /\ IsEmpty(At(chunk, <<1, 1, 0>>))

\* The fire voxel at `cell` is the only voxel of the chunk that has a rule.
FireAlone(cell) ==
    Material(At(pre, cell)) = "Fire" /\ ActiveCells(pre) = {cell}

BecomesSmoke(cell, changes) ==
    /\ Len(changes) = 1
    /\ Target(changes[1]) = cell
    /\ Material(changes[1][4]) = "Smoke"
    /\ Density(changes[1][4]) = 200
    /\ Temperature(changes[1][4]) = 150

AboveEmpty(cell) ==
    cell[2] < CHUNK_SIZE - 1 /\ IsEmpty(At(pre, Above(cell)))

Rises(cell, changes) ==
    /\ Len(changes) = 2
    /\ Target(changes[1]) = cell /\ IsEmpty(changes[1][4])
    /\ Target(changes[2]) = Above(cell) /\ changes[2][4] = At(pre, cell)

Ignites(cell, changes) ==
    \/ changes = <<>>
    \/ /\ Len(changes) = 1
       /\ Target(changes[1]) \in HorizontalNeighbours(cell)
       /\ Material(changes[1][4]) = "Fire"
       /\ Density(changes[1][4]) = 255
       /\ \/ /\ IsEmpty(At(pre, Target(changes[1])))
             /\ Temperature(changes[1][4]) = 200
          \/ /\ Material(At(pre, Target(changes[1]))) = "Wood"
             /\ Temperature(changes[1][4]) = 250

\* C24: the changes one fire voxel queues in one step are exactly one of:
\* (a) its cell becomes smoke 200/150; (b) if the cell above exists and is
\* empty, its cell becomes empty and the cell above receives the same
\* voxel, and nothing else; (c) otherwise at most one horizontal neighbour
\* inside the chunk becomes fire 255/200 if it was empty or fire 255/250 if
\* it was wood, and a neighbour of another material is left as it was.
C24_FireRule ==
    StepScanned =>
        \A cell \in Cells :
            FireAlone(cell) =>
                /\ \/ BecomesSmoke(cell, last.changes)
                   \/ AboveEmpty(cell) /\ Rises(cell, last.changes)
                   \/ ~AboveEmpty(cell) /\ Ignites(cell, last.changes)
                /\ OnlyWritten(last.changes)

\* A step has run in which the fire at (0,0,0), under rock, ignited the wood
\* beside it to fire 255/250.
C24_Witness ==
    /\ StepCompleted
    /\ FireAlone(<<0, 0, 0>>)
    /\ Material(At(pre, <<0, 1, 0>>)) = "Rock"
    /\ Material(At(pre, <<1, 0, 0>>)) = "Wood"
    /\ Material(At(chunk, <<1, 0, 0>>)) = "Fire"
    /\ Temperature(At(chunk, <<1, 0, 0>>)) = 250
    /\ Material(At(chunk, <<0, 0, 0>>)) = "Fire"

\* The water voxel at `cell` is the only voxel that has a rule, but for a
\* fire voxel directly below it.
WaterAlone(cell) ==
    /\ Material(At(pre, cell)) = "Water"
    /\ \A other \in ActiveCells(pre) \ {cell} :
          other = Below(cell) /\ Material(At(pre, other)) = "Fire"

BelowIs(cell, material) ==
    cell[2] > 0 /\ Material(At(pre, Below(cell))) = material

Falls(cell, changes) ==
    /\ Len(changes) = 2
    /\ Target(changes[1]) = cell /\ IsEmpty(changes[1][4])
    /\ Target(changes[2]) = Below(cell) /\ changes[2][4] = At(pre, cell)

\* The water's two changes end the list; what precedes them is what the fire
\* voxel below, scanned before the water, queued for itself.
Extinguishes(cell, changes) ==
    /\ Len(changes) \in {2, 3}
    /\ LET a == changes[Len(changes) - 1]
           b == changes[Len(changes)]
       IN  /\ Target(a) = cell /\ IsEmpty(a[4])
           /\ Target(b) = Below(cell)
           /\ Material(b[4]) = "Smoke"
           /\ Density(b[4]) = 150 /\ Temperature(b[4]) = 50
    /\ Len(changes) = 3 =>
          \/ BecomesSmoke(Below(cell), <<changes[1]>>)
          \/ Ignites(Below(cell), <<changes[1]>>)

Spreads(cell, changes) ==
    \/ changes = <<>>
    \/ /\ Len(changes) = 1
       /\ Target(changes[1]) \in HorizontalNeighbours(cell)
       /\ IsEmpty(At(pre, Target(changes[1])))
       /\ changes[1][4] = At(pre, cell)

\* C25: the changes one water voxel queues in one step are: if the cell below
\* exists and is empty, its cell becomes empty and the cell below receives
\* the same voxel, and nothing else; if the cell below is fire, the
\* extinguish change and nothing else; otherwise (also in the bottom layer)
\* at most one horizontal neighbour inside the chunk that was empty becomes
\* water, and a neighbour that was not empty is never changed.
C25_WaterRule ==
    StepScanned =>
        \A cell \in Cells :
            WaterAlone(cell) =>
                /\ CASE BelowIs(cell, "Air") -> Falls(cell, last.changes)
                     [] BelowIs(cell, "Fire") ->
                            last.panicked \/ Extinguishes(cell, last.changes)
                     [] OTHER -> Spreads(cell, last.changes)
                /\ BelowIs(cell, "Fire") \/ OnlyWritten(last.changes)

\* A step has run in which the water at (0,0,0), in the bottom layer and
\* under rock, spread to the empty cell beside it.
C25_Witness ==
    /\ StepCompleted
    /\ WaterAlone(<<0, 0, 0>>)
    /\ Material(At(pre, <<0, 1, 0>>)) = "Rock"
    /\ IsEmpty(At(pre, <<1, 0, 0>>))
    /\ At(chunk, <<1, 0, 0>>) = At(pre, <<0, 0, 0>>)
    /\ Material(At(chunk, <<1, 0, 0>>)) = "Water"

\* C26: a step never changes a cell whose material before the step is
\* debris, rock, dirt or metal, whatever its neighbours and the draws are:
\* every change is queued for a cell that held air, wood, fire, smoke or
\* water.
C26_InertCells ==
    StepScanned =>
        /\ \A cell \in Cells :
              Material(At(pre, cell)) \in {"Debris", "Rock", "Dirt", "Metal"}
              => At(chunk, cell) = At(pre, cell)
        /\ \A i \in DOMAIN last.changes :
              Material(At(pre, Target(last.changes[i])))
                  \in {"Air", "Wood", "Fire", "Smoke", "Water"}

\* A step has run on fire above debris and beside metal in which the fire
\* turned to smoke: the debris and the metal are as they were.
C26_Witness ==
    /\ StepCompleted
    /\ Material(At(pre, <<0, 0, 0>>)) = "Debris"
    /\ Material(At(pre, <<0, 1, 0>>)) = "Fire"
    /\ Material(At(pre, <<1, 1, 0>>)) = "Metal"
    /\ Material(At(chunk, <<0, 1, 0>>)) = "Smoke"
    /\ At(chunk, <<0, 0, 0>>) = DebrisVoxel
    /\ Material(At(chunk, <<1, 1, 0>>)) = "Metal"

WaterCells(c) == {cell \in Cells : Material(At(c, cell)) = "Water"}

\* C29: in a step in which no water voxel sits directly above a fire voxel,
\* the number of water voxels of the chunk after the step equals the number
\* before it, for every chunk content and all draws.
C29_WaterConserved ==
    (/\ StepScanned
     /\ \A cell \in WaterCells(pre) : ~BelowIs(cell, "Fire"))
    => Cardinality(WaterCells(chunk)) = Cardinality(WaterCells(pre))

FireCells(c) == {cell \in Cells : Material(At(c, cell)) = "Fire"}

\* C29 as it holds: falling moves water, horizontal spreading copies it (the
\* source cell keeps its water), and only fire can remove it.  In a step on
\* a chunk that holds no fire voxel the number of water voxels does not
\* decrease, and it stays the same when every water voxel has an empty cell
\* directly below it.
C29_WaterNeverLostWithoutFire ==
    (StepScanned /\ FireCells(pre) = {}) =>
        /\ Cardinality(WaterCells(chunk)) >= Cardinality(WaterCells(pre))
        /\ (\A cell \in WaterCells(pre) : BelowIs(cell, "Air"))
              => Cardinality(WaterCells(chunk)) = Cardinality(WaterCells(pre))

\* A step has run, on a chunk without fire, in which the water at (0,1,0)
\* fell into the empty cell below it while smoke stood beside it.
C29_Witness ==
    /\ StepCompleted
    /\ FireCells(pre) = {}
    /\ WaterCells(pre) = {<<0, 1, 0>>}
    /\ Material(At(pre, <<1, 1, 0>>)) = "Smoke"
    /\ WaterCells(chunk) = {<<0, 0, 0>>}

(***************************************************************************)
(* Properties of the scheduler's skipping (checked under SpecLife).        *)
(***************************************************************************)
\* C28: in every state reached from a new chunk by set_voxel, fill_region,
\* fill_sphere, element spawns, rescans and simulation steps, a chunk that
\* holds a voxel of a dynamic material has has_dynamic_elements set, so
\* simulate_fire_cpu never skips a chunk that holds a dynamic voxel.
C28_DynamicImpliesFlag ==
    DynamicCells(chunk) # {} => NeedsSimulation(chunk)

\* A simulation step, the last of MaxOps operations, has changed a chunk
\* whose cell (0,0,0) was empty; the chunk still holds a dynamic voxel.
C28_Witness ==
    /\ StepCompleted
    /\ last.changes # <<>>
    /\ DynamicCells(chunk) # {}
    /\ NeedsSimulation(chunk)
    /\ IsEmpty(At(pre, <<0, 0, 0>>))
    /\ ops = MaxOps

(***************************************************************************)
(* A chunk and its texture: spawned by spawn_test_chunk, then written,     *)
(* simulated and uploaded in any order.                                    *)
(***************************************************************************)
\* spawn_test_chunk (main.rs:74-104) at a position with z = 0, as
\* setup_test_world calls it: a new chunk whose lowest layers are rock (4 of
\* the 64 in the source, half of the layers here), its texture created from
\* it, its dirty flag cleared.
SpawnTestChunk(chunk_pos) ==
    LET filled == IF chunk_pos[3] = 0
                  THEN FillRegion(WorldChunkNew(chunk_pos), Splat(0),
                                  <<CHUNK_SIZE, CHUNK_SIZE, CHUNK_SIZE \div 2>>,
                                  VoxelRock(255))
                  ELSE WorldChunkNew(chunk_pos)
    IN  [chunk |-> [filled EXCEPT !.dirty = FALSE],
         image |-> CreateChunkTexture(filled)]

InitDisplay ==
    /\ vx = VoxelAir
    /\ chunk = SpawnTestChunk(<<-1, 1, 0>>).chunk
    /\ image = SpawnTestChunk(<<-1, 1, 0>>).image
    /\ ACCUMULATOR = 0
    /\ elapsed = 0
    /\ sim_steps = 0
    /\ NoManager
    /\ SEED = SeedInitial
    /\ overflow_checks = FALSE
    /\ volume = <<>>
    /\ render = <<>>
    /\ pre = chunk
    /\ last = [op |-> "init"]

DisplayFrame ==
    /\ ops < MaxOps
    /\ Alive
    /\ ops' = ops + 1
    /\ pre' = chunk
    /\ UNCHANGED <<vx, ACCUMULATOR, elapsed, sim_steps, chunks, world, latest,
                   SEED, overflow_checks, volume, render>>

\* set_voxel of air or fire on a cell above the rock or on a cell of it.
DisplaySetVoxel ==
    /\ \E cell \in {<<0, 0, CHUNK_SIZE - 1>>, <<1, 0, 0>>},
          voxel \in {VoxelAir, FireSphereVoxel} :
          /\ chunk' = SetVoxel(chunk, cell[1], cell[2], cell[3], voxel)
          /\ last' = [op |-> "set_voxel", x |-> cell[1], y |-> cell[2],
                      z |-> cell[3], voxel |-> voxel]
    /\ image' = image
    /\ DisplayFrame

\* fill_region of the layer y = 0 with rock.
DisplayFillRegion ==
    /\ chunk' = FillRegion(chunk, Splat(0), <<CHUNK_SIZE, 1, CHUNK_SIZE>>,
                           VoxelRock(255))
    /\ last' = [op |-> "fill_region", min |-> Splat(0),
                max |-> <<CHUNK_SIZE, 1, CHUNK_SIZE>>, voxel |-> VoxelRock(255)]
    /\ image' = image
    /\ DisplayFrame

\* fill_sphere of smoke around the centre of a voxel above the rock,
\* reaching no other voxel centre.
DisplayFillSphere ==
    /\ LET center == LocalToWorld(chunk, 0, 0, CHUNK_SIZE - 1)
       IN  /\ chunk' = FillSphere(chunk, center, 1, SmokeSphereVoxel)
           /\ last' = [op |-> "fill_sphere", center |-> center, radius |-> 1,
                       voxel |-> SmokeSphereVoxel]
    /\ image' = image
    /\ DisplayFrame

\* A frame in which one simulation step runs.
DisplaySimulate ==
    /\ ops < MaxOps
    /\ Alive
    /\ ops' = ops + 1
    /\ SimulateFireCpu(SIM_RATE)
    /\ UNCHANGED <<chunks, world, latest, image, SEED, overflow_checks,
                   volume, render>>

\* update_chunk_textures: a dirty chunk is uploaded if Assets<Image> holds
\* its Image, and its dirty flag is cleared.
UpdateChunkTextures ==
    /\ IF chunk.dirty
       THEN /\ image' = UploadTexture(image, chunk)
            /\ chunk' = UpdateChunkTexture(chunk)
       ELSE UNCHANGED <<image, chunk>>
    /\ last' = [op |-> "update_chunk_textures"]
    /\ DisplayFrame

\* The render world extracts the chunk's Image.
ExtractImage ==
    /\ IsSome(image.asset)
    /\ image' = ExtractTexture(image)
    /\ chunk' = chunk
    /\ last' = [op |-> "extract_image"]
    /\ DisplayFrame

NextDisplay ==
    \/ DisplaySetVoxel
    \/ DisplayFillRegion
    \/ DisplayFillSphere
    \/ DisplaySimulate
    \/ UpdateChunkTextures
    \/ ExtractImage

SpecDisplay == InitDisplay /\ [][NextDisplay]_vars

(***************************************************************************)
(* Properties of the display layer (checked under SpecDisplay).            *)
(***************************************************************************)
\* C22: after any interleaving of voxel mutations and display updates,
\* whenever the chunk's dirty flag is false the voxel data last handed to
\* the display layer equals the chunk's current voxel array.
C22_CleanMeansShown ==
    ~chunk.dirty => image.shown = Some(VoxelBytes(chunk))

(***************************************************************************)
(* The volume and its projection (volume.rs).  A density (f32) is an       *)
(* integer number of hundredths; a position along a ray is an integer      *)
(* number of quarter units, on which the steps of 0.75 are exact.  The     *)
(* volume sizes are powers of two, on which the f32 arithmetic of the      *)
(* pixel-to-ray mapping and of the position bytes is exact.  The rotation  *)
(* is Vec3::ZERO: both rotation matrices are the identity.                 *)
(***************************************************************************)
\* Volume::new(width, height, depth)
VolumeNew(width, height, depth) ==
    [dimensions |-> <<width, height, depth>>,
     data |-> [i \in 0..(width * height * depth - 1) |-> 0]]

\* Volume::index
VolumeIndex(v, x, y, z) ==
    z * v.dimensions[1] * v.dimensions[2] + y * v.dimensions[1] + x

\* Volume::get: 0.0 outside the volume.
VolumeGet(v, x, y, z) ==
    IF x >= v.dimensions[1] \/ y >= v.dimensions[2] \/ z >= v.dimensions[3]
    THEN 0
    ELSE v.data[VolumeIndex(v, x, y, z)]

\* Volume::set: nothing outside the volume.
VolumeSet(v, x, y, z, value) ==
    IF x >= v.dimensions[1] \/ y >= v.dimensions[2] \/ z >= v.dimensions[3]
    THEN v
    ELSE [v EXCEPT !.data[VolumeIndex(v, x, y, z)] = value]

\* Volume::gradient: the negated central differences, as a direction.  The
\* components are kept in hundredths times two (the division by 2.0 * step
\* is left out), so that length_squared() > 0.0001 reads n.n > 4; the
\* direction stands for the normalised vector, and Vec3::Y is <<0, 1, 0>>.
Gradient(v, x, y, z) ==
    LET dx == IF x > 0 /\ x < v.dimensions[1] - 1
              THEN VolumeGet(v, x + 1, y, z) - VolumeGet(v, x - 1, y, z) ELSE 0
        dy == IF y > 0 /\ y < v.dimensions[2] - 1
              THEN VolumeGet(v, x, y + 1, z) - VolumeGet(v, x, y - 1, z) ELSE 0
        dz == IF z > 0 /\ z < v.dimensions[3] - 1
              THEN VolumeGet(v, x, y, z + 1) - VolumeGet(v, x, y, z - 1) ELSE 0
    IN  IF dx * dx + dy * dy + dz * dz > 4
        THEN <<-dx, -dy, -dz>>
        ELSE <<0, 1, 0>>

\* ((n[i] / |n| * 0.5 + 0.5) * 255.0) as u8: the number of k in 1..255 with
\* k <= 127.5 * (1 + n[i] / |n|), decided on the squares.
NormalByte(n, i) ==
    LET len_sq == n[1] * n[1] + n[2] * n[2] + n[3] * n[3]
        b == 255 * n[i]
        AtMost(k) ==
            LET a == 2 * k - 255
            IN  IF a <= 0 /\ b >= 0 THEN TRUE
                ELSE IF a > 0 /\ b < 0 THEN FALSE
                ELSE IF a > 0 THEN a * a * len_sq <= b * b
                ELSE a * a * len_sq >= b * b
    IN  Cardinality({k \in 1..255 : AtMost(k)})

\* ((p / vol_size) * 255.0) as u8, of a coordinate p in quarter units.
PositionByte(p4, vol_size) == (p4 * 255) \div (4 * vol_size)

\* An f32 result: a value num / 2^exp rounded to a 24-bit significand, ties
\* to even.
RoundF32(d) ==
    LET s == BitLength(d[1]) - 24
    IN  IF s <= 0 THEN d
        ELSE LET q    == d[1] \div 2^s
                 rem  == d[1] % 2^s
                 half == 2^(s - 1)
                 up   == rem > half \/ (rem = half /\ q % 2 = 1)
             IN  <<IF up THEN q + 1 ELSE q, d[2] - s>>

\* `0.5 + (hit_pos.y / vol_size) * 0.2` in f32, as num / 2^exp; 0.2f32 is
\* 13421773 / 2^26 and 4 * vol_size is 2^(BitLength(4 * vol_size) - 1).
BaseColor(y4, vol_size) ==
    LET variation == RoundF32(<<y4 * 13421773, 26 + BitLength(4 * vol_size) - 1>>)
    IN  RoundF32(<<variation[1] + 2^(variation[2] - 1), variation[2]>>)

\* (base_color * k) as u8 for k = odd * 2^shift (180, 170 and 160).
DiffuseByte(base, odd, shift) ==
    LET product == RoundF32(<<base[1] * odd, base[2] - shift>>)
    IN  product[1] \div 2^(product[2])

\* A marching loop that keeps the last solid sample instead of stopping at
\* the first.
MarchRayLastHit(v, x4, y4) ==
    LET vol_size  == v.dimensions[1]
        max_steps == (vol_size * 3) \div 2
        Inside(p4) == p4 >= 0 /\ p4 < 4 * vol_size
        Solid(step) ==
            /\ Inside(x4) /\ Inside(y4) /\ Inside(3 * step - 2 * vol_size)
            /\ VolumeGet(v, x4 \div 4, y4 \div 4,
                         (3 * step - 2 * vol_size) \div 4) > 30
        hits == {step \in 0..(max_steps - 1) : Solid(step)}
        final == CHOOSE step \in hits : \A other \in hits : step >= other
    IN  IF hits = {} THEN [hit |-> FALSE]
        ELSE [hit |-> TRUE,
              hit_pos |-> <<x4, y4, 3 * final - 2 * vol_size>>,
              hit_voxel |-> <<x4 \div 4, y4 \div 4,
                              (3 * final - 2 * vol_size) \div 4>>]

\* The marching loop for the pixel whose ray is at (x4, y4): the sample of
\* step k is at depth -vol_size + 0.75 k + center, that is 3 k - 2 vol_size
\* quarter units; samples outside the volume are skipped; the first sample
\* whose voxel has density > 0.3 is the hit.
MarchRay(v, x4, y4) ==
    LET vol_size  == v.dimensions[1]
        max_steps == (vol_size * 3) \div 2
        Inside(p4) == p4 >= 0 /\ p4 < 4 * vol_size
        Solid(step) ==
            /\ Inside(x4) /\ Inside(y4) /\ Inside(3 * step - 2 * vol_size)
            /\ VolumeGet(v, x4 \div 4, y4 \div 4,
                         (3 * step - 2 * vol_size) \div 4) > 30
        hits == {step \in 0..(max_steps - 1) : Solid(step)}
        first == CHOOSE step \in hits : \A other \in hits : step <= other
    IN  IF hits = {} THEN [hit |-> FALSE]
        ELSE [hit |-> TRUE,
              hit_pos |-> <<x4, y4, 3 * first - 2 * vol_size>>,
              hit_voxel |-> <<x4 \div 4, y4 \div 4,
                              (3 * first - 2 * vol_size) \div 4>>]

\* The four bytes of a pixel in each map.
PositionPixel(v, h) ==
    IF h.hit
    THEN <<PositionByte(h.hit_pos[1], v.dimensions[1]),
           PositionByte(h.hit_pos[2], v.dimensions[1]),
           PositionByte(h.hit_pos[3], v.dimensions[1]), 255>>
    ELSE <<0, 0, 0, 0>>

\* A normal map whose transparent pixels carry the encoded up vector.
NormalPixelDefaultUp(v, h) ==
    IF h.hit
    THEN LET n == Gradient(v, h.hit_voxel[1], h.hit_voxel[2], h.hit_voxel[3])
         IN  <<NormalByte(n, 1), NormalByte(n, 2), NormalByte(n, 3), 255>>
    ELSE <<127, 255, 127, 0>>

NormalPixel(v, h) ==
    IF h.hit
    THEN LET n == Gradient(v, h.hit_voxel[1], h.hit_voxel[2], h.hit_voxel[3])
         IN  <<NormalByte(n, 1), NormalByte(n, 2), NormalByte(n, 3), 255>>
    ELSE <<0, 0, 0, 0>>

DiffusePixel(v, h) ==
    IF h.hit
    THEN LET base == BaseColor(h.hit_pos[2], v.dimensions[1])
         IN  <<DiffuseByte(base, 45, 2), DiffuseByte(base, 85, 1),
               DiffuseByte(base, 5, 5), 255>>
    ELSE <<0, 0, 0, 0>>

\* The ray of pixel (px, py): screen + center = p * vol_size / output_size,
\* in quarter units.
RayOf(v, output_size, pixel) ==
    MarchRay(v, (4 * (pixel % output_size) * v.dimensions[1]) \div output_size,
                (4 * (pixel \div output_size) * v.dimensions[1]) \div output_size)

\* render_volume_to_maps(volume, output_size, Vec3::ZERO); a map is kept as
\* the RGBA bytes of each pixel py * width + px.
RenderVolumeToMaps(v, output_size) ==
    LET pixels == 0..(output_size * output_size - 1)
    IN  [position_map |-> [p \in pixels |-> PositionPixel(v, RayOf(v, output_size, p))],
         normal_map   |-> [p \in pixels |-> NormalPixel(v, RayOf(v, output_size, p))],
         diffuse_map  |-> [p \in pixels |-> DiffusePixel(v, RayOf(v, output_size, p))],
         width  |-> output_size,
         height |-> output_size]

(***************************************************************************)
(* A volume is created, written by set and rendered once.                  *)
(***************************************************************************)
\* The number of calls of Volume::set before the render.
MaxSets == 2

VolumeSizes == {1, 2, 4}

\* The cells set is called on: the column x = y = 1 (and one cell behind
\* it), a cell beside it and the first cell; some are outside the smaller
\* volumes.  The densities: none, the threshold, just above it and solid.
SetCells(vol_size) ==
    {<<1, 1, z>> : z \in 0..vol_size} \cup {<<0, 0, 0>>, <<2, 1, 1>>}
Densities == {0, 30, 31, 100}

InitRender ==
    /\ vx = VoxelAir
    /\ chunk = NoChunk
    /\ ACCUMULATOR = 0
    /\ elapsed = 0
    /\ sim_steps = 0
    /\ NoManager
    /\ image = NoImage
    /\ SEED = SeedInitial
    /\ overflow_checks = FALSE
    /\ \E size \in VolumeSizes : volume = VolumeNew(size, size, size)
    /\ render = <<>>
    /\ pre = volume
    /\ last = [op |-> "init"]

RenderFrame ==
    /\ render = <<>>
    /\ pre' = volume
    /\ UNCHANGED <<vx, chunk, ACCUMULATOR, elapsed, sim_steps, chunks, world,
                   latest, image, SEED, overflow_checks>>

VolumeSetOp ==
    /\ ops < MaxSets
    /\ \E cell \in SetCells(volume.dimensions[1]), value \in Densities \ {0} :
          /\ volume' = VolumeSet(volume, cell[1], cell[2], cell[3], value)
          /\ last' = [op |-> "set", x |-> cell[1], y |-> cell[2], z |-> cell[3],
                      value |-> value]
    /\ ops' = ops + 1
    /\ render' = render
    /\ RenderFrame

\* render_volume_to_maps at the volume's size or at twice that.
RenderOp ==
    /\ \E output_size \in {volume.dimensions[1], 2 * volume.dimensions[1]} :
          /\ render' = RenderVolumeToMaps(volume, output_size)
          /\ last' = [op |-> "render_volume_to_maps", output_size |-> output_size,
                      hit_voxel |->
                          [p \in 0..(output_size * output_size - 1) |->
                              IF RayOf(volume, output_size, p).hit
                              THEN Some(RayOf(volume, output_size, p).hit_voxel)
                              ELSE None]]
    /\ UNCHANGED <<volume, ops>>
    /\ RenderFrame

NextRender ==
    \/ VolumeSetOp
    \/ RenderOp

SpecRender == InitRender /\ [][NextRender]_vars

\* The pixels of a render.
Pixels == 0..(render.width * render.height - 1)

\* The voxels the ray of a pixel samples: the samples are 0.75 apart from
\* depth -vol_size on, floor(1.5 vol_size) of them, and those outside the
\* volume are skipped.
SampledVoxels(pixel) ==
    LET vol_size == volume.dimensions[1]
        x4 == (4 * (pixel % render.width) * vol_size) \div render.width
        y4 == (4 * (pixel \div render.width) * vol_size) \div render.height
        depths == {3 * step - 2 * vol_size : step \in 0..(((3 * vol_size) \div 2) - 1)}
    IN  {<<x4 \div 4, y4 \div 4, z4 \div 4>> :
            z4 \in {d \in depths : d >= 0 /\ d < 4 * vol_size}}

SamplesSolid(pixel) ==
    \E c \in SampledVoxels(pixel) : VolumeGet(volume, c[1], c[2], c[3]) > 30

\* C21: a pixel whose ray samples no voxel of density above 0.3 (a ray that
\* never enters the volume included) has alpha 0 in the three maps and RGB 0
\* in the position and normal maps; a pixel with a hit has alpha 255 in the
\* three maps.
C21_ProjectionTransparency ==
    render # <<>> =>
        \A p \in Pixels :
            IF SamplesSolid(p)
            THEN /\ render.position_map[p][4] = 255
                 /\ render.normal_map[p][4] = 255
                 /\ render.diffuse_map[p][4] = 255
            ELSE /\ render.position_map[p] = <<0, 0, 0, 0>>
                 /\ render.normal_map[p] = <<0, 0, 0, 0>>
                 /\ render.diffuse_map[p][4] = 0

\* A render with a hit pixel and with a transparent pixel whose ray sampled a
\* voxel of density exactly 0.3.
C21_Witness ==
    /\ render # <<>>
    /\ \E p \in Pixels : render.position_map[p][4] = 255
    /\ \E p \in Pixels :
          /\ render.normal_map[p] = <<0, 0, 0, 0>>
          /\ \E c \in SampledVoxels(p) : VolumeGet(volume, c[1], c[2], c[3]) = 30

\* The solid voxels of the column of a pixel among the layers 0..deepest.
SolidLayers(pixel, deepest) ==
    {z \in 0..deepest :
        VolumeGet(volume, pixel % render.width, pixel \div render.width, z) > 30}

\* The pixel is hit exactly when one of the layers is solid, and the hit it
\* records is the solid voxel of the smallest layer.
FirstSolidOf(pixel, deepest) ==
    LET solid == SolidLayers(pixel, deepest)
    IN  /\ render.position_map[pixel][4] = 255 <=> solid # {}
        /\ solid # {} =>
              last.hit_voxel[pixel] =
                  Some(<<pixel % render.width, pixel \div render.width,
                         CHOOSE z \in solid : \A other \in solid : z <= other>>)

\* C30 as stated: with zero rotation and the output size equal to the volume
\* size, a pixel is hit exactly when its column has a solid voxel anywhere in
\* the depth 0..size-1, and the hit is the first of them.
C30_WholeDepth ==
    (render # <<>> /\ render.width = volume.dimensions[1]) =>
        \A p \in Pixels : FirstSolidOf(p, volume.dimensions[1] - 1)

\* The layer of the last sample: floor(0.75 (floor(1.5 size) - 1) - size / 2),
\* negative when no sample is inside the volume.
Reach(size) == (3 * (((3 * size) \div 2) - 1) - 2 * size) \div 4

\* C30: with zero rotation, a power-of-two volume size and the output size
\* equal to it, a pixel is hit exactly when its column has a solid voxel in
\* the layers 0..Reach(size), and the hit is the first of them.
C30_FirstSolidWithinReach ==
    (render # <<>> /\ render.width = volume.dimensions[1]) =>
        \A p \in Pixels : FirstSolidOf(p, Reach(volume.dimensions[1]))

\* A render of the volume of size 4 at size 4 whose pixel (1, 1) hit the
\* voxel of layer 1 behind a voxel of density exactly 0.3.
C30_Witness ==
    /\ render # <<>>
    /\ volume.dimensions[1] = 4
    /\ render.width = 4
    /\ VolumeGet(volume, 1, 1, 0) = 30
    /\ last.hit_voxel[5] = Some(<<1, 1, 1>>)

====
